---- MODULE Spec2Model ----
(***************************************************************************)
(* State-machine model of the wicket-rs markup core:                       *)
(*   FullyBufferedReader  (wicket-util .../io/fully_buffered_reader.rs)    *)
(*   XmlPullParser        (wicket-core .../parser/xml_pull_parser.rs)      *)
(*   XmlTag               (wicket-core .../parser/xml_tag.rs)              *)
(*   MarkupParser         (wicket-core .../markup/markup_parser.rs)        *)
(*   ComponentTag         (wicket-core .../markup/markup_element.rs)       *)
(*                                                                         *)
(* The source buffer is a sequence of one-character strings; offsets are   *)
(* the zero-based byte offsets of the Rust code (buffers are ASCII, so a   *)
(* byte is a character).  A Rust panic (slice out of range, index out of   *)
(* bounds, arithmetic overflow in a build with overflow checks) is the     *)
(* result kind "panic": the call aborts and nothing can be called after.   *)
(***************************************************************************)
EXTENDS Integers, Sequences, FiniteSets, TLC

VARIABLES
    stream,                 \* the bytes of the stream given to new_stream
    doc,                    \* history: how the stream was written
    encoding,               \* XmlPullParser.encoding
    input,                  \* FullyBufferedReader.input
    overflow_checks,        \* build profile: TRUE = usize overflow panics, FALSE = wraps
    input_position,         \* FullyBufferedReader.input_position
    line_number,            \* FullyBufferedReader.line_number
    column_number,          \* FullyBufferedReader.column_number
    last_line_count_index,  \* FullyBufferedReader.last_line_count_index
    position_marker,        \* FullyBufferedReader.position_marker
    skip_until_text,        \* XmlPullParser.skip_until_text
    last_type,              \* XmlPullParser.last_type
    last_text_range,        \* XmlPullParser.last_text_range
    last_tag,               \* XmlPullParser.last_tag
    doc_type_range,         \* XmlPullParser.doc_type_range
    filters,                \* MarkupParser.filters: what each filter of the chain does
    queue,                  \* MarkupParser.queue
    markup,                 \* parse_markup's local Vec<MarkupElement>
    pc,                     \* position of the caller / of parse_markup's loop
    op,                     \* history: the operation called last
    ret,                    \* history: what that call returned
    pre,                    \* history: the parser state that call started from
    loops,                  \* history: iterations of the search loop run by that call
    events,                 \* history: pulls, filter calls and deliveries of the pipeline
    component_tag,          \* a ComponentTag held by a caller of its setters and getters
    flag_args               \* history: the argument of the last setter call of each flag

vars == << stream, doc, encoding, input, overflow_checks, input_position, line_number, column_number,
           last_line_count_index, position_marker, skip_until_text, last_type,
           last_text_range, last_tag, doc_type_range, filters, queue, markup,
           pc, op, ret, pre, loops, events, component_tag, flag_args >>

-----------------------------------------------------------------------------
(* Bounds of the model.                                                    *)

\* number of markup fragments concatenated into a generated buffer
MaxFrags == 2

\* length of the longest filter chain
MaxFilters == 2

-----------------------------------------------------------------------------
(* Values.                                                                 *)

\* Option::None of an Option<usize>
NONE == -1

\* Option::None of an Option<char>
NOCHAR == ""

Range(a, b) == [start |-> a, end |-> b]

\* Range::is_empty
RangeIsEmpty(r) == r.start >= r.end

\* Range::len
RangeLen(r) == IF r.start >= r.end THEN 0 ELSE r.end - r.start

Min(S) == CHOOSE x \in S : \A y \in S : x <= y

UpperCase == << "A","B","C","D","E","F","G","H","I","J","K","L","M",
                "N","O","P","Q","R","S","T","U","V","W","X","Y","Z" >>
LowerCase == << "a","b","c","d","e","f","g","h","i","j","k","l","m",
                "n","o","p","q","r","s","t","u","v","w","x","y","z" >>

\* u8::to_ascii_lowercase
ToAsciiLower(c) ==
    IF \E i \in 1..26 : UpperCase[i] = c
    THEN LowerCase[CHOOSE i \in 1..26 : UpperCase[i] = c]
    ELSE c

\* str::eq_ignore_ascii_case
EqIgnoreAsciiCase(a, b) ==
    /\ Len(a) = Len(b)
    /\ \A i \in 1..Len(a) : ToAsciiLower(a[i]) = ToAsciiLower(b[i])

\* char::is_whitespace / u8::is_ascii_whitespace on the ASCII characters used
IsWhitespace(c) == c \in {" ", "\n", "\t", "\r"}

STYLE == << "s","t","y","l","e" >>
SCRIPT == << "s","c","r","i","p","t" >>

\* SkipType::get_text
SkipText(skip) ==
    CASE skip = "Style" -> STYLE
      [] skip = "Script" -> SCRIPT
      [] OTHER -> << >>

\* SkipType::len
SkipLen(skip) == Len(SkipText(skip))

-----------------------------------------------------------------------------
(* FullyBufferedReader: pure reads of the buffer.                          *)

\* FullyBufferedReader::size
Size == Len(input)

\* FullyBufferedReader::char_at (pos < size at every call)
CharAt(pos) == input[pos + 1]

\* &input[a..b] for a valid range
Slice(a, b) == SubSeq(input, a + 1, b)

\* str::starts_with on &input[r]
StartsWith(r, lit) ==
    /\ RangeLen(r) >= Len(lit)
    /\ \A i \in 1..Len(lit) : input[r.start + i] = lit[i]

\* str::ends_with on &input[r]
EndsWith(r, lit) ==
    /\ RangeLen(r) >= Len(lit)
    /\ \A i \in 1..Len(lit) : input[r.end - Len(lit) + i] = lit[i]

\* str::contains on &input[r]
Contains(r, lit) ==
    \E k \in r.start..(r.end - Len(lit)) : StartsWith(Range(k, r.end), lit)

\* FullyBufferedReader::find_char_at, for start_pos <= size
FindCharAt(ch, start_pos) ==
    LET hits == { i \in start_pos..(Size - 1) : input[i + 1] = ch }
    IN  IF hits = {} THEN NONE ELSE Min(hits)

\* FullyBufferedReader::find_str_at, for start_pos <= size
FindStrAt(lit, start_pos) ==
    LET hits == { i \in start_pos..(Size - Len(lit)) : StartsWith(Range(i, Size), lit) }
    IN  IF hits = {} THEN NONE ELSE Min(hits)

\* FullyBufferedReader::get_substring: Some exactly for a range inside the buffer
GetSubstringIsSome(from_pos, to_pos) == from_pos <= to_pos /\ to_pos <= Size

-----------------------------------------------------------------------------
(* XmlTag.                                                                 *)

\* Option::None of an Option<Range<usize>>
NORANGE == Range(NONE, NONE)

\* usize::MAX, the value 0usize - 1 wraps to in a build without overflow
\* checks; only compared with offsets, so the largest integer of the model
\* checker stands for it
USIZE_MAX == 2147483647

\* XmlTag::with_text(source, text_range, tag_type), the other fields default
XmlTagWithText(text_range, tag_type) ==
    [ text_range      |-> text_range,
      tag_type        |-> tag_type,
      name_range      |-> Range(0, 0),
      namespace_range |-> NORANGE,
      attributes      |-> << >>,
      modified        |-> FALSE ]

\* Option::None of an Option<XmlTag>
NOTAG == XmlTagWithText(NORANGE, "None")

-----------------------------------------------------------------------------
(* MarkupElement.  uid is not a field of the code: it names the object, so *)
(* that an element can be followed through the filters and the queue.  A   *)
(* tag made from a token has the offset of the token's '<' as its uid.     *)

\* Option<Box<ComponentTag>>::None, and Some(open tag) as far as its id
NoOpenTag == [some |-> FALSE, id |-> ""]
OpenTagWithId(id) == [some |-> TRUE, id |-> id]

\* ComponentTag::from_xml_tag: the other fields are those of ComponentTag::default
ComponentTagFromXmlTag(xml_tag, uid) ==
    [ kind |-> "ComponentTag", tag |-> xml_tag, flags |-> {}, id |-> "",
      open_tag |-> NoOpenTag, text_range |-> NORANGE, uid |-> uid ]

\* MarkupElement::SpecialTag(SpecialTag { tag })
SpecialTagOf(xml_tag, uid) ==
    [ kind |-> "SpecialTag", tag |-> xml_tag, flags |-> {}, id |-> "",
      open_tag |-> NoOpenTag, text_range |-> NORANGE, uid |-> uid ]

\* MarkupElement::RawMarkup(RawMarkup { text_range })
RawMarkupOf(text_range, uid) ==
    [ kind |-> "RawMarkup", tag |-> NOTAG, flags |-> {}, id |-> "",
      open_tag |-> NoOpenTag, text_range |-> text_range, uid |-> uid ]

\* Option<MarkupElement>::None
NOELEM == [RawMarkupOf(NORANGE, NONE) EXCEPT !.kind = "None"]

\* ComponentTag::set_modified
SetModified(ct, modified) ==
    [ct EXCEPT !.flags = IF modified THEN @ \cup {"MODIFIED"} ELSE @ \ {"MODIFIED"}]

\* ComponentTag::is_modified: (flags & MODIFIED).is_empty()
IsModified(ct) == ct.flags \cap {"MODIFIED"} = {}

\* ComponentTag::set_has_no_close_tag
SetHasNoCloseTag(ct, has_no_close_tag) ==
    [ct EXCEPT !.flags = IF has_no_close_tag THEN @ \cup {"NO_CLOSE_TAG"} ELSE @ \ {"NO_CLOSE_TAG"}]

\* ComponentTag::is_has_no_close_tag: (flags & NO_CLOSE_TAG).is_empty()
IsHasNoCloseTag(ct) == ct.flags \cap {"NO_CLOSE_TAG"} = {}

\* ComponentTag::set_contains_wicket_id
SetContainsWicketId(ct, contains_wicket_id) ==
    [ct EXCEPT !.flags = IF contains_wicket_id THEN @ \cup {"CONTAINS_WICKET_ID"}
                                               ELSE @ \ {"CONTAINS_WICKET_ID"}]

\* ComponentTag::is_contains_wicket_id: (flags & CONTAINS_WICKET_ID).is_empty()
IsContainsWicketId(ct) == ct.flags \cap {"CONTAINS_WICKET_ID"} = {}

\* ComponentTag::set_ignore
SetIgnore(ct, ignore) ==
    [ct EXCEPT !.flags = IF ignore THEN @ \cup {"IGNORE"} ELSE @ \ {"IGNORE"}]

\* ComponentTag::is_ignore: (flags & IGNORE).is_empty()
IsIgnore(ct) == ct.flags \cap {"IGNORE"} = {}

\* ComponentTag::set_auto_component_tag
SetAutoComponentTag(ct, auto_component_tag) ==
    [ct EXCEPT !.flags = IF auto_component_tag THEN @ \cup {"AUTO_COMPONENT"}
                                               ELSE @ \ {"AUTO_COMPONENT"}]

\* ComponentTag::is_auto_component_tag: (flags & AUTO_COMPONENT).is_empty()
IsAutoComponentTag(ct) == ct.flags \cap {"AUTO_COMPONENT"} = {}

\* ComponentTag::default: no open tag, XmlTag::new(), ComponentTagFlags::NONE,
\* an empty id
ComponentTagDefault == ComponentTagFromXmlTag(XmlTagWithText(Range(0, 0), "Open"), NONE)

\* the flags of a ComponentTag that have a setter and a getter
SetterFlags == {"MODIFIED", "IGNORE", "NO_CLOSE_TAG", "CONTAINS_WICKET_ID", "AUTO_COMPONENT"}

\* no setter has been called
NeverSet == [f \in SetterFlags |-> FALSE]

\* ComponentTag::set_id
SetId(ct, id) == [ct EXCEPT !.id = id]

\* XmlTag::is_close
IsClose(tag) == tag.tag_type = "Close"

-----------------------------------------------------------------------------
(* Results of a call.  kind is "ok" (what = the value returned), "err"     *)
(* (what = the ParseException variant, at = its position field) or         *)
(* "panic".  idx carries an Option<usize> result, n the iterations of the  *)
(* call's search loop, tag an XmlTag under construction, info the other    *)
(* fields of an error; elem, queue and events are those of get_next_tag:   *)
(* the element it returns, MarkupParser.queue after it, and what it did.   *)

Outcome(st, kind, what, at) ==
    [st |-> st, kind |-> kind, what |-> what, at |-> at, idx |-> NONE, n |-> 0,
     tag |-> NOTAG, info |-> << >>, elem |-> NOELEM, queue |-> << >>,
     events |-> << >>]

Ok(st, what) == Outcome(st, "ok", what, NONE)
OkIdx(st, idx) == [Outcome(st, "ok", "", NONE) EXCEPT !.idx = idx]
Err(st, what, at) == Outcome(st, "err", what, at)
Panic(st, what) == Outcome(st, "panic", what, NONE)

-----------------------------------------------------------------------------
(* FullyBufferedReader: line counting and the quote-aware search.          *)

\* the body of count_lines_to's for_each over &input[a..b], a <= b <= size
LineColAfter(line, col, a, b) ==
    LET newlines == { i \in a..(b - 1) : CharAt(i) = "\n" }
        from == IF newlines = {} THEN a ELSE (CHOOSE i \in newlines : \A j \in newlines : j <= i) + 1
        counted == { i \in from..(b - 1) : CharAt(i) \notin {"\n", "\r"} }
    IN  [ line |-> line + Cardinality(newlines),
          col  |-> (IF newlines = {} THEN col ELSE 1) + Cardinality(counted) ]

\* FullyBufferedReader::count_lines_to; the slice panics when the range is
\* reversed or runs past the buffer
CountLinesTo(st, end) ==
    IF st.last_line_count_index > end \/ end > Size
    THEN Panic(st, "count_lines_to: slice out of range")
    ELSE LET lc == LineColAfter(st.line_number, st.column_number,
                                st.last_line_count_index, end)
         IN  Ok([st EXCEPT !.line_number = lc.line,
                           !.column_number = lc.col,
                           !.last_line_count_index = end], "")

\* the while loop of find_out_of_quotes from index i on
RECURSIVE FindOutOfQuotesLoop(_, _, _, _, _, _)
FindOutOfQuotesLoop(st, ch, start_pos, i, quote, previous_char) ==
    IF i >= Size
    THEN IF quote # NOCHAR
         THEN Err(st, "Find", start_pos)
         ELSE OkIdx(st, NONE)
    ELSE LET c == CharAt(i)
             opens == quote = NOCHAR /\ c \in {"'", "\""}
             closes == /\ quote # NOCHAR
                       /\ quote = c
                       /\ previous_char # NOCHAR
                       /\ previous_char # "\\"
             counted == IF opens THEN CountLinesTo(st, start_pos + i) ELSE Ok(st, "")
             quote1 == IF opens THEN c ELSE IF closes THEN NOCHAR ELSE quote
         IN  IF counted.kind = "panic"
             THEN counted
             ELSE IF c = ch /\ quote1 = NOCHAR
                  THEN OkIdx(counted.st, i)
                  ELSE FindOutOfQuotesLoop(counted.st, ch, start_pos, i + 1, quote1, c)

\* FullyBufferedReader::find_out_of_quotes(ch, start_pos, None)
FindOutOfQuotes(st, ch, start_pos) ==
    FindOutOfQuotesLoop(st, ch, start_pos, start_pos, NOCHAR, NOCHAR)

\* the for loop of XmlPullParser::find_char from index i on
RECURSIVE FindCharLoop(_, _, _)
FindCharLoop(ch, i, quote) ==
    IF i >= Size
    THEN NONE
    ELSE LET c == CharAt(i)
         IN  IF quote # NOCHAR
             THEN FindCharLoop(ch, i + 1, IF quote = c THEN NOCHAR ELSE quote)
             ELSE IF c \in {"'", "\""}
                  THEN FindCharLoop(ch, i + 1, c)
                  ELSE IF c = ch THEN i ELSE FindCharLoop(ch, i + 1, quote)

\* XmlPullParser::find_char: ignores text inside '..' and ".."; None when
\* start_index is past the buffer (get_substring_from)
FindChar(ch, start_index) ==
    IF start_index > Size THEN NONE ELSE FindCharLoop(ch, start_index, NOCHAR)

-----------------------------------------------------------------------------
(* XmlTag: accessors and put_attribute.                                    *)

\* XmlTag::name
TagName(tag) == Slice(tag.name_range.start, tag.name_range.end)

\* XmlTag::namespace, for a tag that has one
TagNamespace(tag) == Slice(tag.namespace_range.start, tag.namespace_range.end)

\* XmlAttribute::key
AttrKey(a) == Slice(a.key_range.start, a.key_range.end)

\* AttrValue::to_str of a Raw value
AttrValueText(a) == Slice(a.value.start, a.value.end)

\* XmlTag::pos: text_range.start - 1 on usize
TagPos(tag, checks) ==
    IF tag.text_range.start >= 1
    THEN [kind |-> "ok", pos |-> tag.text_range.start - 1]
    ELSE IF checks
         THEN [kind |-> "panic", pos |-> NONE]
         ELSE [kind |-> "ok", pos |-> USIZE_MAX]

\* a put_attribute that takes two keys differing only in letter case for the
\* same key and keeps the first attribute only
PutAttributeFoldsCase(st, tag, attrib, checks) ==
    LET clash == { i \in 1..Len(tag.attributes) :
                     /\ RangeLen(attrib.key_range) = RangeLen(tag.attributes[i].key_range)
                     /\ AttrKey(attrib) = AttrKey(tag.attributes[i]) }
        folded == { i \in 1..Len(tag.attributes) :
                      EqIgnoreAsciiCase(AttrKey(attrib), AttrKey(tag.attributes[i])) }
    IN  IF clash # {}
        THEN LET p == TagPos(tag, checks)
             IN  IF p.kind = "panic"
                 THEN [Panic(st, "pos: attempt to subtract with overflow") EXCEPT !.tag = tag]
                 ELSE [Err(st, "AttributeExists", p.pos) EXCEPT
                          !.tag = tag,
                          !.info = << attrib.key_range, attrib.value >>]
        ELSE IF folded # {}
        THEN [Ok(st, "") EXCEPT !.tag = tag]
        ELSE [Ok(st, "") EXCEPT !.tag = [tag EXCEPT !.attributes = Append(@, attrib)]]

\* XmlTag::put_attribute
PutAttribute(st, tag, attrib, checks) ==
    LET clash == { i \in 1..Len(tag.attributes) :
                     /\ RangeLen(attrib.key_range) = RangeLen(tag.attributes[i].key_range)
                     /\ AttrKey(attrib) = AttrKey(tag.attributes[i]) }
    IN  IF clash # {}
        THEN LET p == TagPos(tag, checks)
             IN  IF p.kind = "panic"
                 THEN [Panic(st, "pos: attempt to subtract with overflow") EXCEPT !.tag = tag]
                 ELSE [Err(st, "AttributeExists", p.pos) EXCEPT
                          !.tag = tag,
                          !.info = << attrib.key_range, attrib.value >>]
        ELSE [Ok(st, "") EXCEPT !.tag = [tag EXCEPT !.attributes = Append(@, attrib)]]

\* XmlTag::text
TagText(tag) == Slice(tag.text_range.start, tag.text_range.end)

\* XmlTag::is_open_close
IsOpenClose(tag) == tag.tag_type = "OpenClose"

\* the for loop of to_xml_string over the attributes from the k-th on
RECURSIVE AttributesXml(_, _)
AttributesXml(tag, k) ==
    IF k > Len(tag.attributes)
    THEN << >>
    ELSE << " " >> \o AttrKey(tag.attributes[k]) \o << "=", "\"" >>
            \o AttrValueText(tag.attributes[k]) \o << "\"" >>
            \o AttributesXml(tag, k + 1)

\* XmlTag::to_xml_string
ToXmlString(tag) ==
    << "<" >>
       \o (IF IsClose(tag) THEN << "/" >> ELSE << >>)
       \o (IF tag.namespace_range # NORANGE THEN TagNamespace(tag) \o << ":" >> ELSE << >>)
       \o TagName(tag)
       \o AttributesXml(tag, 1)
       \o (IF IsOpenClose(tag) THEN << "/" >> ELSE << >>)
       \o << ">" >>

\* XmlTag::to_char_sequence
ToCharSequence(tag) ==
    IF tag.modified THEN ToXmlString(tag) ELSE TagText(tag)

-----------------------------------------------------------------------------
(* XmlPullParser: the tag text.                                            *)

\* XmlPullParser::parse_tag_name: (name_range, namespace_range)
ParseTagName(tag_inner) ==
    LET len == RangeLen(tag_inner)
        stops == { k \in 0..(len - 1) :
                     \/ IsWhitespace(CharAt(tag_inner.start + k))
                     \/ CharAt(tag_inner.start + k) \in {"/", ">"} }
        name_end_index == IF stops = {} THEN len ELSE Min(stops)
        colons == { k \in 0..(name_end_index - 1) : CharAt(tag_inner.start + k) = ":" }
    IN  IF colons # {}
        THEN [ name      |-> Range(tag_inner.start + Min(colons) + 1,
                                   tag_inner.start + name_end_index),
               namespace |-> Range(tag_inner.start, tag_inner.start + Min(colons)) ]
        ELSE [ name      |-> Range(tag_inner.start, tag_inner.start + name_end_index),
               namespace |-> NORANGE ]

\* the inner loops of find_attribute_pairs: the first index from cursor on
\* (relative to content_position.start) that is not whitespace
SkipWhitespace(cp, cursor) ==
    Min({ k \in cursor..(RangeLen(cp) - 1) : ~IsWhitespace(CharAt(cp.start + k)) }
        \cup {IF cursor > RangeLen(cp) THEN cursor ELSE RangeLen(cp)})

\* ... that is whitespace or '='
KeyEnd(cp, cursor) ==
    Min({ k \in cursor..(RangeLen(cp) - 1) :
            IsWhitespace(CharAt(cp.start + k)) \/ CharAt(cp.start + k) = "=" }
        \cup {RangeLen(cp)})

\* ... that is the quote character
QuoteEnd(cp, cursor, quote) ==
    Min({ k \in cursor..(RangeLen(cp) - 1) : CharAt(cp.start + k) = quote }
        \cup {RangeLen(cp)})

\* the outer while loop of find_attribute_pairs from cursor on.  The flags
\* finding_open_quote / finding_close_quote are false at the top of every
\* iteration (an iteration that leaves one set returns the error), so they
\* are the branches below.  The error carries the line and column counted
\* up to content_position.start + cursor: that offset is the result's at.
RECURSIVE FindAttributePairsLoop(_, _, _, _)
FindAttributePairsLoop(st, cp, cursor, pairs) ==
    LET len == RangeLen(cp)
        key_start == SkipWhitespace(cp, cursor)
    IN  IF cursor >= len \/ key_start >= len
           \/ CharAt(cp.start + key_start) \in {"/", ">"}
        THEN [Ok(st, "") EXCEPT !.info = pairs]
        ELSE LET key_end == KeyEnd(cp, key_start)
                 key_range == Range(key_start, key_end)
                 eq == SkipWhitespace(cp, key_end)
             IN  IF eq < len /\ CharAt(cp.start + eq) = "="
                 THEN LET q == SkipWhitespace(cp, eq + 1)
                      IN  IF q < len /\ CharAt(cp.start + q) \in {"'", "\""}
                          THEN LET val_start == q + 1
                                   val_end == QuoteEnd(cp, val_start, CharAt(cp.start + q))
                               IN  IF val_end >= len
                                   THEN Panic(st, "find_attribute_pairs: index out of bounds")
                                   ELSE FindAttributePairsLoop(st, cp, val_end + 1,
                                            Append(pairs, [key_range |-> key_range,
                                                           value_range |-> Range(val_start, val_end)]))
                          ELSE Err(st, "AttributeValueUnquotedParseError", cp.start + q)
                 ELSE FindAttributePairsLoop(st, cp, eq,
                          Append(pairs, [key_range |-> key_range,
                                         value_range |-> Range(0, 0)]))

\* XmlPullParser::find_attribute_pairs
FindAttributePairs(st, content_position) ==
    FindAttributePairsLoop(st, content_position, 0, << >>)

\* the for loop of parse_tag_text over attrib_list from its k-th pair on; a
\* value that holds no '&' is stored as AttrValue::Raw(range) (unescape_markup
\* returns Cow::Borrowed), and the buffers of the model hold none
RECURSIVE PutAttributes(_, _, _, _, _, _)
PutAttributes(st, tag, attrib_list, k, attrib_start_index, checks) ==
    IF k > Len(attrib_list)
    THEN [Ok(st, "true") EXCEPT !.tag = tag]
    ELSE LET ar == attrib_list[k]
             attrib == [ key_range |-> Range(attrib_start_index + ar.key_range.start,
                                             attrib_start_index + ar.key_range.end),
                         value     |-> Range(attrib_start_index + ar.value_range.start,
                                             attrib_start_index + ar.value_range.end) ]
             put == PutAttribute(st, tag, attrib, checks)
         IN  IF put.kind # "ok"
             THEN put
             ELSE PutAttributes(st, put.tag, attrib_list, k + 1, attrib_start_index, checks)

\* XmlPullParser::parse_tag_text: Ok(true) with the tag filled in, or the
\* error of find_attribute_pairs / put_attribute
ParseTagText(st, tag, tag_text_range, checks) ==
    LET nm == ParseTagName(tag_text_range)
    IN  IF ~RangeIsEmpty(nm.name)
        THEN LET named == [tag EXCEPT !.name_range = nm.name,
                                      !.namespace_range = nm.namespace]
             IN  IF nm.name.end = tag_text_range.end
                 THEN [Ok(st, "true") EXCEPT !.tag = named]
                 ELSE LET found == FindAttributePairs(st, Range(nm.name.end, tag_text_range.end))
                      IN  IF found.kind # "ok"
                          THEN found
                          ELSE PutAttributes(st, named, found.info, 1, nm.name.end, checks)
        ELSE [Ok(st, "true") EXCEPT !.tag = tag]

-----------------------------------------------------------------------------
(* XmlPullParser: raw-text skipping.                                       *)

\* a literal as the sequence of its characters
LtSlash == << "<", "/" >>

\* the loop of skip_until: the n-th iteration, entered with pos and last_pos
RECURSIVE SkipUntilLoop(_, _, _, _, _)
SkipUntilLoop(st, start_index, pos, last_pos, n) ==
    LET tag_name_len == SkipLen(st.skip_until_text)
        found == FindStrAt(LtSlash, pos + 1)
        last_pos1 == last_pos + found + 2
    IN  IF found = NONE
        THEN [Err(st, "TagNotClosed", start_index) EXCEPT !.n = n]
        ELSE IF found + tag_name_len + 2 >= Size
        THEN [Err(st, "TagNotClosed", start_index) EXCEPT !.n = n]
        ELSE IF ~GetSubstringIsSome(last_pos1, last_pos1 + tag_name_len)
        THEN [Err(st, "TagEndTextError", start_index) EXCEPT !.n = n]
        ELSE IF EqIgnoreAsciiCase(SkipText(st.skip_until_text),
                                  Slice(last_pos1, last_pos1 + tag_name_len))
        THEN [Ok(st, "break") EXCEPT !.idx = found, !.at = last_pos1, !.n = n]
        ELSE SkipUntilLoop(st, start_index, found, last_pos1, n + 1)

\* skip_until that forgets to clear skip_until_text after the end tag
SkipUntilStaysArmed(st) ==
    LET start_index == st.input_position
        tag_name_len == SkipLen(st.skip_until_text)
        pos0 == IF st.input_position = 0 THEN 0 ELSE st.input_position - 1
        loop == SkipUntilLoop(st, start_index, pos0, 0, 1)
        body == [st EXCEPT !.input_position = loop.idx, !.last_type = "Body"]
    IN  IF loop.kind # "ok"
        THEN loop
        ELSE IF FindCharAt(">", loop.at + tag_name_len) = NONE
        THEN [Err(body, "SkipTagNotClosed", start_index) EXCEPT !.n = loop.n]
        ELSE [Ok(body, "") EXCEPT !.n = loop.n]

\* skip_until that puts the cursor back to the start of the buffer when the
\* end tag has no '>'
SkipUntilRewinds(st) ==
    LET start_index == st.input_position
        tag_name_len == SkipLen(st.skip_until_text)
        pos0 == IF st.input_position = 0 THEN 0 ELSE st.input_position - 1
        loop == SkipUntilLoop(st, start_index, pos0, 0, 1)
        moved == [st EXCEPT !.input_position = loop.idx]
        body == [moved EXCEPT !.last_type = "Body"]
    IN  IF loop.kind # "ok"
        THEN loop
        ELSE IF start_index > loop.idx
        THEN [Err(moved, "LastTextError", start_index) EXCEPT !.n = loop.n]
        ELSE IF FindCharAt(">", loop.at + tag_name_len) = NONE
        THEN [Err([body EXCEPT !.input_position = 0], "SkipTagNotClosed", start_index)
                 EXCEPT !.n = loop.n]
        ELSE [Ok([body EXCEPT !.skip_until_text = "None"], "") EXCEPT !.n = loop.n]

\* XmlPullParser::skip_until
SkipUntil(st) ==
    LET start_index == st.input_position
        tag_name_len == SkipLen(st.skip_until_text)
        pos0 == IF st.input_position = 0 THEN 0 ELSE st.input_position - 1
        loop == SkipUntilLoop(st, start_index, pos0, 0, 1)
        pos == loop.idx
        last_pos == loop.at
        moved == [st EXCEPT !.input_position = pos]
        body == [moved EXCEPT !.last_type = "Body"]
    IN  IF loop.kind # "ok"
        THEN loop
        ELSE IF start_index > pos
        THEN [Err(moved, "LastTextError", start_index) EXCEPT !.n = loop.n]
        ELSE IF FindCharAt(">", last_pos + tag_name_len) = NONE
        THEN [Err(body, "SkipTagNotClosed", start_index) EXCEPT !.n = loop.n]
        ELSE [Ok([body EXCEPT !.skip_until_text = "None"], "") EXCEPT !.n = loop.n]

-----------------------------------------------------------------------------
(* XmlPullParser: special tags.                                            *)

LitComment == << "!", "-", "-" >>
LitEndif == << "!", "[", "e", "n", "d", "i", "f", "]", "-", "-" >>
LitIf == << "!", "-", "-", "[", "i", "f", " " >>
LitCdata == << "!", "[", "C", "D", "A", "T", "A", "[" >>
LitDoctype == << "!", "D", "O", "C", "T", "Y", "P", "E" >>

\* the loop of the CDATA branch of special_tag_handling, entered with pos1
RECURSIVE CdataLoop(_, _, _, _)
CdataLoop(st, open_bracket_index, pos1, n) ==
    LET close_bracket_index == FindChar(">", pos1)
        tmp_tag_range == Range(open_bracket_index + 1, close_bracket_index)
    IN  IF close_bracket_index = NONE
        THEN [Err(st, "NoCloseBracketIndex", st.input_position) EXCEPT !.n = n]
        ELSE IF RangeIsEmpty(tmp_tag_range)
        THEN [Err(st, "NoSpecialTagText", open_bracket_index + 1) EXCEPT !.n = n]
        ELSE IF EndsWith(tmp_tag_range, << "]", "]" >>)
        THEN [Ok([st EXCEPT !.last_text_range = tmp_tag_range,
                            !.last_type = "Cdata",
                            !.input_position = close_bracket_index + 1], "")
                 EXCEPT !.n = n]
        ELSE CdataLoop(st, open_bracket_index, close_bracket_index + 1, n + 1)

\* XmlPullParser::special_tag_handling
SpecialTagHandling(st, tag_text_range, open_bracket_index, close_bracket_index) ==
    LET after == [st EXCEPT !.input_position = close_bracket_index + 1]
    IN  IF StartsWith(tag_text_range, LitComment)
        THEN IF Contains(tag_text_range, LitEndif)
             THEN Ok([after EXCEPT !.last_type = "ConditionalCommentEndif"], "")
             ELSE IF StartsWith(tag_text_range, LitIf) /\ EndsWith(tag_text_range, << "]" >>)
             THEN LET pos == FindStrAt(<< "]", "-", "-", ">" >>, open_bracket_index + 1)
                  IN  IF pos = NONE
                      THEN Err(st, "UnclosedComment", st.input_position)
                      ELSE Ok([after EXCEPT
                                 !.last_text_range = Range(open_bracket_index, pos + 4),
                                 !.last_type = "ConditionalComment"], "")
             ELSE LET pos == FindStrAt(<< "-", "-", ">" >>, open_bracket_index + 1)
                  IN  IF pos = NONE
                      THEN Err(st, "UnclosedComment", st.input_position)
                      ELSE Ok([st EXCEPT
                                 !.last_text_range = Range(open_bracket_index, pos + 3),
                                 !.last_type = "Comment",
                                 !.input_position = pos + 3], "")
        ELSE IF EqIgnoreAsciiCase(Slice(tag_text_range.start, tag_text_range.end), LitEndif)
        THEN Ok([after EXCEPT !.last_type = "ConditionalCommentEndif"], "")
        ELSE IF StartsWith(tag_text_range, LitCdata)
        THEN CdataLoop(st, open_bracket_index, open_bracket_index, 1)
        ELSE IF StartsWith(tag_text_range, << "?" >>)
        THEN Ok([after EXCEPT !.last_type = "ProcessingInstruction"], "")
        ELSE IF StartsWith(tag_text_range, LitDoctype)
        THEN Ok([after EXCEPT
                   !.doc_type_range = Range(open_bracket_index + 1, close_bracket_index),
                   !.last_type = "Special"], "")
        ELSE Ok([after EXCEPT !.last_type = "Special"], "")

-----------------------------------------------------------------------------
(* XmlPullParser: the tokenizer.                                           *)

\* next_iteration, the tag type: the type of the tag and its inner text
\* with the slash removed
TagTypeOf(tag_range) ==
    IF EndsWith(tag_range, << "/" >>)
    THEN [tag_type |-> "OpenClose", range |-> Range(tag_range.start, tag_range.end - 1)]
    ELSE IF StartsWith(tag_range, << "/" >>)
    THEN [tag_type |-> "Close", range |-> Range(tag_range.start + 1, tag_range.end)]
    ELSE [tag_type |-> "Open", range |-> tag_range]

\* next_iteration, the open tag: the skip type it arms
ArmedBy(tag_range, armed) ==
    IF /\ RangeLen(tag_range) > Len(STYLE)
       /\ EqIgnoreAsciiCase(Slice(tag_range.start, tag_range.start + 1), << "s" >>)
    THEN IF EqIgnoreAsciiCase(Slice(tag_range.start, tag_range.start + Len(SCRIPT)), SCRIPT)
         THEN "Script"
         ELSE IF EqIgnoreAsciiCase(Slice(tag_range.start, tag_range.start + Len(STYLE)), STYLE)
         THEN "Style"
         ELSE armed
    ELSE armed

\* a close bracket search that takes the first '>' for every tag, quoted or
\* not
CloseBracketPlain(st, open_bracket_i, checks) ==
    IF Size = 0 /\ checks
    THEN Panic(st, "next_iteration: size() - 1 overflows")
    ELSE IF open_bracket_i < (IF Size = 0 THEN USIZE_MAX ELSE Size - 1)
    THEN OkIdx(st, FindCharAt(">", open_bracket_i))
    ELSE OkIdx(st, NONE)

\* next_iteration, from "Get index of closing tag": the close bracket
CloseBracket(st, open_bracket_i, checks) ==
    IF Size = 0 /\ checks
    THEN Panic(st, "next_iteration: size() - 1 overflows")
    ELSE IF open_bracket_i < (IF Size = 0 THEN USIZE_MAX ELSE Size - 1)
    THEN IF CharAt(open_bracket_i + 1) \in {"!", "?"}
         THEN OkIdx(st, FindCharAt(">", open_bracket_i))
         ELSE FindOutOfQuotes(st, ">", open_bracket_i)
    ELSE OkIdx(st, NONE)

\* next_iteration, from "Handle special tags": a tag whose bracket pair and
\* type are known
TagIteration(st, tag_range, tag_type, open_bracket_i, close_bracket_i, checks) ==
    IF ~RangeIsEmpty(tag_range) /\ CharAt(tag_range.start) \in {"!", "?"}
    THEN LET special == SpecialTagHandling(st, tag_range, open_bracket_i, close_bracket_i)
         IN  IF special.kind # "ok"
             THEN special
             ELSE LET tag == XmlTagWithText(special.st.last_text_range, tag_type)
                  IN  [Ok([special.st EXCEPT !.last_tag = tag], special.st.last_type)
                         EXCEPT !.n = special.n]
    ELSE LET parsed == ParseTagText(st, XmlTagWithText(st.last_text_range, tag_type),
                                    tag_range, checks)
         IN  IF parsed.kind # "ok"
             THEN parsed
             ELSE IF parsed.what = "true"
             THEN Ok([st EXCEPT !.input_position = close_bracket_i + 1,
                                !.last_type = "Tag",
                                !.last_tag = parsed.tag], "Tag")
             ELSE Err(st, "MalformedTag", st.input_position)

\* a body branch that stops after one character of text
BodyIterationOneChar(st) ==
    Ok([st EXCEPT !.input_position = st.input_position + 1, !.last_type = "Body"], "Body")

\* a body branch that leaves the last character of a longer text for the
\* next call
BodyIterationStopsShort(st) ==
    LET open_bracket_index == FindCharAt("<", st.input_position)
        end == IF open_bracket_index = NONE THEN Size ELSE open_bracket_index
    IN  Ok([st EXCEPT !.input_position = IF end >= st.input_position + 2 THEN end - 1 ELSE end,
                      !.last_type = "Body"], "Body")

\* next_iteration, the branch "It's a BODY": text up to the next '<' or to
\* the end of the buffer
BodyIteration(st) ==
    LET open_bracket_index == FindCharAt("<", st.input_position)
    IN  Ok([st EXCEPT !.input_position = IF open_bracket_index = NONE
                                           THEN Size
                                           ELSE open_bracket_index,
                      !.last_type = "Body"], "Body")

\* next_iteration, from "Determine the line number": the cursor is on a '<'
MarkupIteration(st, checks) ==
    LET open_bracket_index == FindCharAt("<", st.input_position)
        counted == CountLinesTo(st, open_bracket_index)
        close == CloseBracket(counted.st, open_bracket_index, checks)
        ranged == [close.st EXCEPT
                     !.last_text_range = Range(open_bracket_index, close.idx + 1)]
        inner == Range(open_bracket_index + 1, close.idx)
        typed == TagTypeOf(inner)
        armed == IF typed.tag_type = "Open"
                 THEN [ranged EXCEPT !.skip_until_text = ArmedBy(typed.range, @)]
                 ELSE ranged
    IN  IF open_bracket_index = NONE
        THEN Err(st, "NoOpenBracketIndexSettingLineNo", st.input_position)
        ELSE IF counted.kind # "ok"
        THEN counted
        ELSE IF close.kind # "ok"
        THEN close
        ELSE IF close.idx = NONE
        THEN Err(close.st, "NoCloseBracketIndex", st.input_position)
        ELSE IF RangeIsEmpty(inner)
        THEN Err(ranged, "EmptyTag", st.input_position)
        ELSE TagIteration(armed, typed.range, typed.tag_type,
                          open_bracket_index, close.idx, checks)

\* next_iteration, the branch of an armed skip_until_text
SkipIteration(st) ==
    LET skipped == SkipUntil(st)
    IN  IF skipped.kind # "ok"
        THEN skipped
        ELSE [Ok(skipped.st, skipped.st.last_type) EXCEPT !.n = skipped.n]

\* next_iteration that looks at skip_until_text before it looks for the end
\* of the buffer
NextIterationSkipFirst(st, checks) ==
    IF st.skip_until_text # "None"
    THEN SkipIteration(st)
    ELSE IF st.input_position = Size
    THEN Ok(st, "NotInitialized")
    ELSE IF CharAt(st.input_position) # "<"
    THEN BodyIteration(st)
    ELSE MarkupIteration(st, checks)

\* XmlPullParser::next_iteration
NextIteration(st, checks) ==
    IF st.input_position = Size
    THEN Ok(st, "NotInitialized")
    ELSE IF st.skip_until_text # "None"
    THEN SkipIteration(st)
    ELSE IF CharAt(st.input_position) # "<"
    THEN BodyIteration(st)
    ELSE MarkupIteration(st, checks)

\* XmlPullParser::next_tag, the n-th iteration of its loop: NextTagLoop
\* advances once and NextTagMatch is the match on what the advance returned
RECURSIVE NextTagLoop(_, _, _)
RECURSIVE NextTagMatch(_, _, _)
NextTagMatch(it, checks, n) ==
    IF it.kind # "ok"
    THEN [it EXCEPT !.n = n]
    ELSE IF it.what = "NotInitialized"
    THEN [Ok(it.st, "None") EXCEPT !.n = n]
    ELSE IF it.st.last_type = "Tag"
    THEN [Ok([it.st EXCEPT !.last_tag = NOTAG], "Some") EXCEPT !.tag = it.st.last_tag, !.n = n]
    ELSE NextTagLoop(it.st, checks, n + 1)

NextTagLoop(st, checks, n) == NextTagMatch(NextIteration(st, checks), checks, n)

\* XmlPullParser::next_tag
NextTag(st, checks) == NextTagLoop(st, checks, 1)

-----------------------------------------------------------------------------
(* Buffers.                                                                *)

\* pieces of markup a generated buffer is concatenated from
Fragments ==
    {
      \* ab
      << "a", "b" >>,
      \* <a>
      << "<", "a", ">" >>,
      \* </a>
      << "<", "/", "a", ">" >>,
      \* <b/>
      << "<", "b", "/", ">" >>,
      \* <p:n k='v'>
      << "<", "p", ":", "n", " ", "k", "=", "'", "v", "'", ">" >>,
      \* <script>
      << "<", "s", "c", "r", "i", "p", "t", ">" >>,
      \* </script>
      << "<", "/", "s", "c", "r", "i", "p", "t", ">" >>,
      \* <!--c-->
      << "<", "!", "-", "-", "c", "-", "-", ">" >>,
      \* <!--[if IE]>
      << "<", "!", "-", "-", "[", "i", "f", " ", "I", "E", "]", ">" >>,
      \* <![endif]-->
      << "<", "!", "[", "e", "n", "d", "i", "f", "]", "-", "-", ">" >>,
      \* <a "=">
      << "<", "a", " ", "\"", "=", "\"", ">" >>,
      \* <a b=c>
      << "<", "a", " ", "b", "=", "c", ">" >> }

\* whole buffers, among them those of the tests of xml_pull_parser.rs cut short
TestDocs ==
    {
      \* 
      << >>,
      \* <style>a<b</style>
      << "<", "s", "t", "y", "l", "e", ">", "a", "<", "b", "<", "/", "s",
         "t", "y", "l", "e", ">" >>,
      \* <script>a<b</script>c
      << "<", "s", "c", "r", "i", "p", "t", ">", "a", "<", "b", "<", "/",
         "s", "c", "r", "i", "p", "t", ">", "c" >>,
      \* <script>a</b></script>
      << "<", "s", "c", "r", "i", "p", "t", ">", "a", "<", "/", "b", ">",
         "<", "/", "s", "c", "r", "i", "p", "t", ">" >>,
      \* <SCRIPT>x</Script >y
      << "<", "S", "C", "R", "I", "P", "T", ">", "x", "<", "/", "S", "c",
         "r", "i", "p", "t", " ", ">", "y" >>,
      \* <!--[if IE]><a>y</a><![endif]-->
      << "<", "!", "-", "-", "[", "i", "f", " ", "I", "E", "]", ">", "<",
         "a", ">", "y", "<", "/", "a", ">", "<", "!", "[", "e", "n", "d",
         "i", "f", "]", "-", "-", ">" >>,
      \* <!--[if IE]><a b='c'><![endif]-->
      << "<", "!", "-", "-", "[", "i", "f", " ", "I", "E", "]", ">", "<",
         "a", " ", "b", "=", "'", "c", "'", ">", "<", "!", "[", "e", "n",
         "d", "i", "f", "]", "-", "-", ">" >>,
      \* <![CDATA[x>y]]>z
      << "<", "!", "[", "C", "D", "A", "T", "A", "[", "x", ">", "y", "]",
         "]", ">", "z" >>,
      \* <![CDATA['>']]>
      << "<", "!", "[", "C", "D", "A", "T", "A", "[", "'", ">", "'", "]",
         "]", ">" >>,
      \* <?x?>
      << "<", "?", "x", "?", ">" >>,
      \* <!DOCTYPE h>
      << "<", "!", "D", "O", "C", "T", "Y", "P", "E", " ", "h", ">" >>,
      \* <!x>
      << "<", "!", "x", ">" >>,
      \* <a/b>
      << "<", "a", "/", "b", ">" >>,
      \* <a:>
      << "<", "a", ":", ">" >>,
      \* </>
      << "<", "/", ">" >>,
      \* <>
      << "<", ">" >>,
      \* <
      << "<" >>,
      \* a<
      << "a", "<" >>,
      \* <x y='1' y='2'>
      << "<", "x", " ", "y", "=", "'", "1", "'", " ", "y", "=", "'", "2",
         "'", ">" >>,
      \* <x y='1' Y="2" z>
      << "<", "x", " ", "y", "=", "'", "1", "'", " ", "Y", "=", "\"", "2",
         "\"", " ", "z", ">" >>,
      \* a\nb<c d='e'>
      << "a", "\n", "b", "<", "c", " ", "d", "=", "'", "e", "'", ">" >>,
      \* <a b='c>
      << "<", "a", " ", "b", "=", "'", "c", ">" >>,
      \* <a b='\''>
      << "<", "a", " ", "b", "=", "'", "\\", "'", "'", ">" >>,
      \* <script a=1></script>
      << "<", "s", "c", "r", "i", "p", "t", " ", "a", "=", "1", ">", "<",
         "/", "s", "c", "r", "i", "p", "t", ">" >>,
      \* <script></scriptx
      << "<", "s", "c", "r", "i", "p", "t", ">", "<", "/", "s", "c", "r",
         "i", "p", "t", "x" >>,
      \* <style x>a</style>b<c>
      << "<", "s", "t", "y", "l", "e", " ", "x", ">", "a", "<", "/", "s",
         "t", "y", "l", "e", ">", "b", "<", "c", ">" >>,
      \* xxxxxx<a b=''><c d=e>
      << "x", "x", "x", "x", "x", "x", "<", "a", " ", "b", "=", "'", "'", ">", "<", "c", " ", "d", "=", "e", ">" >>,
      \* <a b = 'c' d e="f" >
      << "<", "a", " ", "b", " ", "=", " ", "'", "c", "'", " ", "d", " ", "e", "=", "\"", "f", "\"", " ", ">" >>,
      \* <a b= c>
      << "<", "a", " ", "b", "=", " ", "c", ">" >>,
      \* <a b=>
      << "<", "a", " ", "b", "=", ">" >>,
      \* xxxxxxxxxxxxxx<x y='1' y='2'>
      << "x", "x", "x", "x", "x", "x", "x", "x", "x", "x", "x", "x", "x", "x", "<", "x", " ", "y", "=", "'", "1", "'", " ", "y", "=", "'", "2", "'", ">" >>,
      \* <a b='1' c='2'/>
      << "<", "a", " ", "b", "=", "'", "1", "'", " ", "c", "=", "'", "2", "'", "/", ">" >>,
      \* <styles>x
      << "<", "s", "t", "y", "l", "e", "s", ">", "x" >>,
      \* <p:script>x</p:script>
      << "<", "p", ":", "s", "c", "r", "i", "p", "t", ">", "x", "<", "/", "p", ":", "s", "c", "r", "i", "p", "t", ">" >>,
      \* <script>ab</scriptx
      << "<", "s", "c", "r", "i", "p", "t", ">", "a", "b", "<", "/", "s", "c", "r", "i", "p", "t", "x" >>,
      \* <script>ab
      << "<", "s", "c", "r", "i", "p", "t", ">", "a", "b" >>,
      \* <a b='>'>
      << "<", "a", " ", "b", "=", "'", ">", "'", ">" >>,
      \* x<a b="<!?">c
      << "x", "<", "a", " ", "b", "=", "\"", "<", "!", "?", "\"", ">", "c" >>,
      \* <?x a='>'?>
      << "<", "?", "x", " ", "a", "=", "'", ">", "'", "?", ">" >>,
      \* <!--a>b<c-->d
      << "<", "!", "-", "-", "a", ">", "b", "<", "c", "-", "-", ">", "d" >>,
      \* <!--a
      << "<", "!", "-", "-", "a" >>,
      \* <!--a>
      << "<", "!", "-", "-", "a", ">" >>,
      \* <![CDATA[it's]]>
      << "<", "!", "[", "C", "D", "A", "T", "A", "[", "i", "t", "'", "s", "]", "]", ">" >>,
      \* <![CDATA[a<b]]>
      << "<", "!", "[", "C", "D", "A", "T", "A", "[", "a", "<", "b", "]", "]", ">" >>,
      \* < a>
      << "<", " ", "a", ">" >>,
      \* <!doctype h>
      << "<", "!", "d", "o", "c", "t", "y", "p", "e", " ", "h", ">" >>,
      \* <a '>' b>
      << "<", "a", " ", "'", ">", "'", " ", "b", ">" >>,
      \* xxxxxx<a b=''><!--c-->
      << "x", "x", "x", "x", "x", "x", "<", "a", " ", "b", "=", "'", "'", ">", "<", "!", "-", "-", "c", "-", "-", ">" >>,
      \* <script>a</b>c</script>
      << "<", "s", "c", "r", "i", "p", "t", ">", "a", "<", "/", "b", ">", "c", "<", "/", "s", "c", "r", "i", "p", "t", ">" >>,
      \* <script>a</b>c
      << "<", "s", "c", "r", "i", "p", "t", ">", "a", "<", "/", "b", ">", "c" >> }

\* the concatenations of at most n fragments
RECURSIVE Concats(_)
Concats(n) ==
    IF n = 0
    THEN { << >> }
    ELSE LET shorter == Concats(n - 1)
         IN  shorter \cup { d \o f : d \in shorter, f \in Fragments }

\* the buffers a parser is constructed on
Docs == TestDocs \cup Concats(MaxFrags)

-----------------------------------------------------------------------------
(* The parser object and its caller.                                       *)

\* the fields of the XmlPullParser and of its FullyBufferedReader
Parser ==
    [ input_position        |-> input_position,
      line_number           |-> line_number,
      column_number         |-> column_number,
      last_line_count_index |-> last_line_count_index,
      position_marker       |-> position_marker,
      skip_until_text       |-> skip_until_text,
      last_type             |-> last_type,
      last_text_range       |-> last_text_range,
      last_tag              |-> last_tag,
      doc_type_range        |-> doc_type_range ]

\* the fields after a call that left them as st
SetParser(st) ==
    /\ input_position' = st.input_position
    /\ line_number' = st.line_number
    /\ column_number' = st.column_number
    /\ last_line_count_index' = st.last_line_count_index
    /\ position_marker' = st.position_marker
    /\ skip_until_text' = st.skip_until_text
    /\ last_type' = st.last_type
    /\ last_text_range' = st.last_text_range
    /\ last_tag' = st.last_tag
    /\ doc_type_range' = st.doc_type_range

\* FullyBufferedReader::default and XmlPullParser::default
NewParser ==
    [ input_position        |-> 0,
      line_number           |-> 1,
      column_number         |-> 1,
      last_line_count_index |-> 0,
      position_marker       |-> 0,
      skip_until_text       |-> "None",
      last_type             |-> "NotInitialized",
      last_text_range       |-> Range(0, 0),
      last_tag              |-> NOTAG,
      doc_type_range        |-> Range(0, 0) ]

\* what a call handed back to its caller
Returned(out) ==
    [ kind |-> out.kind, what |-> out.what, at |-> out.at, idx |-> out.idx,
      tag |-> out.tag, info |-> out.info, elem |-> out.elem ]

\* the caller after a call: a panic unwinds through it
After(out) == IF out.kind = "panic" THEN "aborted" ELSE "ready"

\* XmlPullParser::new(input), in either build profile
Init ==
    /\ stream = << >>
    /\ doc = << >>
    /\ encoding = "utf8"
    /\ input \in Docs
    /\ overflow_checks \in BOOLEAN
    /\ input_position = NewParser.input_position
    /\ line_number = NewParser.line_number
    /\ column_number = NewParser.column_number
    /\ last_line_count_index = NewParser.last_line_count_index
    /\ position_marker = NewParser.position_marker
    /\ skip_until_text = NewParser.skip_until_text
    /\ last_type = NewParser.last_type
    /\ last_text_range = NewParser.last_text_range
    /\ last_tag = NewParser.last_tag
    /\ doc_type_range = NewParser.doc_type_range
    /\ filters = << >>
    /\ queue = << >>
    /\ markup = << >>
    /\ pc = "ready"
    /\ op = "new"
    /\ ret = Returned(Ok(NewParser, ""))
    /\ pre = NewParser
    /\ loops = 0
    /\ events = << >>
    /\ component_tag = ComponentTagDefault
    /\ flag_args = NeverSet

\* the caller of a tokenizer method: the parser is left as the call left it
\* and the call and what it returned are recorded
Called(name, out) ==
    /\ SetParser(out.st)
    /\ op' = name
    /\ ret' = Returned(out)
    /\ pre' = Parser
    /\ loops' = out.n
    /\ pc' = After(out)

\* a call of XmlPullParser::next_iteration
Advance ==
    /\ pc = "ready"
    /\ Called("next_iteration", NextIteration(Parser, overflow_checks))
    /\ UNCHANGED << component_tag, flag_args, stream, doc, encoding, input, overflow_checks, filters, queue, markup, events >>

\* a call of XmlPullParser::next_tag
NextTagCall ==
    /\ pc = "ready"
    /\ Called("next_tag", NextTag(Parser, overflow_checks))
    /\ UNCHANGED << component_tag, flag_args, stream, doc, encoding, input, overflow_checks, filters, queue, markup, events >>

\* a call of XmlPullParser::get_element: last_tag.take(), the tag of the last
\* token when no call has taken it yet
GetElement ==
    /\ pc = "ready"
    /\ last_tag' = NOTAG
    /\ op' = "get_element"
    /\ ret' = Returned([Ok(Parser, IF last_tag = NOTAG THEN "None" ELSE "Some")
                          EXCEPT !.tag = last_tag])
    /\ pre' = Parser
    /\ loops' = 0
    /\ UNCHANGED << component_tag, flag_args, stream, doc, encoding, input, overflow_checks, input_position, line_number, column_number,
                    last_line_count_index, position_marker, skip_until_text, last_type,
                    last_text_range, doc_type_range, filters, queue, markup, pc, events >>

Next ==
    \/ Advance
    \/ NextTagCall
    \/ GetElement

Spec == Init /\ [][Next]_vars

-----------------------------------------------------------------------------
(* MarkupFilter.  The chain is built by the caller of MarkupParser; a      *)
(* filter is modelled by what its process does to an element.              *)

\* the uid of an element a filter makes from the element with uid parent
SynthUid(parent) == parent + Size + 1

\* FilterResult
Keep(elem) == [kind |-> "Keep", list |-> << elem >>]
Drop == [kind |-> "Drop", list |-> << >>]
Replace(list) == [kind |-> "Replace", list |-> list]

\* a close tag made by a filter: no text in the source, marked modified
SynthClose(elem) ==
    SetModified(
        ComponentTagFromXmlTag(
            [XmlTagWithText(Range(0, 0), "Close") EXCEPT !.name_range = elem.tag.name_range,
                                                         !.modified = TRUE],
            SynthUid(elem.uid)),
        TRUE)

\* the filters a chain is built from
FilterKinds ==
    { "Keep", "IdOpen", "LinkClose", "Modify", "DropClose", "EmptySpecial",
      "Expand", "RawSpecial", "Split" }

\* MarkupFilter::process of a filter of kind filter
Process(filter, elem) ==
    LET is_tag == elem.kind = "ComponentTag"
        is_special == elem.kind = "SpecialTag"
    IN  CASE filter = "IdOpen" /\ is_tag /\ elem.tag.tag_type = "Open" ->
                Keep(SetId(elem, "x"))
          [] filter = "LinkClose" /\ is_tag /\ IsClose(elem.tag) ->
                Keep([elem EXCEPT !.open_tag = OpenTagWithId("x")])
          [] filter = "Modify" /\ is_tag ->
                Keep(SetModified(elem, TRUE))
          [] filter = "DropClose" /\ is_tag /\ IsClose(elem.tag) ->
                Drop
          [] filter = "EmptySpecial" /\ is_special ->
                Replace(<< >>)
          [] filter = "Expand" /\ is_tag /\ elem.tag.tag_type = "OpenClose" ->
                Replace(<< SetModified([elem EXCEPT !.tag.tag_type = "Open",
                                                    !.tag.modified = TRUE], TRUE),
                           SynthClose(elem) >>)
          [] filter = "RawSpecial" /\ is_special ->
                Replace(<< RawMarkupOf(elem.tag.text_range, SynthUid(elem.uid)) >>)
          [] filter = "Split" /\ is_tag /\ IsClose(elem.tag) ->
                Replace(<< elem, SynthClose(elem), SynthClose(SynthClose(elem)) >>)
          [] OTHER -> Keep(elem)

-----------------------------------------------------------------------------
(* MarkupParser::get_next_tag.                                             *)

\* an entry of the record of what get_next_tag did
Event(e, uid, filter, result, n) ==
    [e |-> e, uid |-> uid, filter |-> filter, result |-> result, n |-> n]

\* get_next_tag, the inner loop ("RootMarkupFilter logic"): next_iteration
\* until it returns something other than Body.  PullElement advances once
\* and PullMatch is the match on what the advance returned.
RECURSIVE PullElement(_, _, _)
RECURSIVE PullMatch(_, _, _)
PullMatch(it, checks, n) ==
    LET taken == [it.st EXCEPT !.last_tag = NOTAG]
        uid == it.st.last_tag.text_range.start
    IN  IF it.kind # "ok"
        THEN [it EXCEPT !.n = n]
        ELSE IF it.what = "NotInitialized"
        THEN [Ok(it.st, "None") EXCEPT !.n = n]
        ELSE IF it.what = "Body"
        THEN PullElement(it.st, checks, n + 1)
        ELSE IF it.st.last_tag = NOTAG
        THEN Panic(it.st, "get_element().unwrap() on None")
        ELSE IF it.what = "Tag"
        THEN [Ok(taken, "Some") EXCEPT
                !.elem = ComponentTagFromXmlTag(it.st.last_tag, uid), !.n = n]
        ELSE [Ok(taken, "Some") EXCEPT
                !.elem = SpecialTagOf(it.st.last_tag, uid), !.n = n]

PullElement(st, checks, n) == PullMatch(NextIteration(st, checks), checks, n)

\* a filter result lets the element go on to the next filter
GoesOn(result) ==
    result.kind = "Keep" \/ (result.kind = "Replace" /\ result.list # << >>)

\* get_next_tag, the loop over the filter chain from its i-th filter on
RECURSIVE RunFilters(_, _, _, _, _)
RunFilters(chain, i, current_item, q, ev) ==
    IF i > Len(chain)
    THEN [dropped |-> FALSE, elem |-> current_item, queue |-> q, events |-> ev]
    ELSE LET result == Process(chain[i], current_item)
             ev1 == Append(ev, Event("filter", current_item.uid, i, result.kind,
                                     Len(result.list)))
         IN  IF GoesOn(result)
             THEN RunFilters(chain, i + 1, Head(result.list),
                             q \o Tail(result.list), ev1)
             ELSE [dropped |-> TRUE, elem |-> current_item, queue |-> q, events |-> ev1]

RECURSIVE OuterLoop(_, _, _, _, _, _)

\* get_next_tag, the end of an iteration of 'outer_loop that returns the
\* element a filter dropped
OuterLoopFilteredKeepsDropped(pulled, run, chain, checks, n) ==
    [Ok(pulled.st, "Some") EXCEPT
        !.elem = run.elem,
        !.queue = run.queue,
        !.events = Append(run.events, Event("return", run.elem.uid, 0, "", 0)),
        !.n = n]

\* get_next_tag, the end of an iteration of 'outer_loop: the chain has run
\* on the pulled element; a dropped element starts the next iteration
OuterLoopFiltered(pulled, run, chain, checks, n) ==
    IF run.dropped
    THEN OuterLoop(pulled.st, run.queue, chain, checks, run.events, n + 1)
    ELSE [Ok(pulled.st, "Some") EXCEPT
            !.elem = run.elem,
            !.queue = run.queue,
            !.events = Append(run.events, Event("return", run.elem.uid, 0, "", 0)),
            !.n = n]

\* get_next_tag, an iteration of 'outer_loop from the pulled element on
OuterLoopPulled(pulled, q, chain, checks, ev, n) ==
    LET ev1 == Append(ev, Event("pull", pulled.elem.uid, 0, pulled.what, pulled.n))
    IN  IF pulled.kind # "ok" \/ pulled.what = "None"
        THEN [pulled EXCEPT !.queue = q, !.events = ev1, !.n = n]
        ELSE OuterLoopFiltered(pulled, RunFilters(chain, 1, pulled.elem, q, ev1),
                               chain, checks, n)

\* get_next_tag, 'outer_loop: its n-th iteration
OuterLoop(st, q, chain, checks, ev, n) ==
    OuterLoopPulled(PullElement(st, checks, 1), q, chain, checks, ev, n)

\* MarkupParser::get_next_tag
GetNextTag(st, q, chain, checks) ==
    IF q # << >>
    THEN [Ok(st, "Some") EXCEPT
            !.elem = Head(q),
            !.queue = Tail(q),
            !.events = << Event("pop", Head(q).uid, 0, "", 0),
                          Event("return", Head(q).uid, 0, "", 0) >>]
    ELSE OuterLoop(st, q, chain, checks, << >>, 1)

-----------------------------------------------------------------------------
(* MarkupParser::parse_markup.                                             *)

\* XmlPullParser::get_range_from_position_marker: the range from the
\* position marker to to_pos, empty when to_pos lies before the marker
GetRangeFromPositionMarker(st, to_pos) ==
    IF to_pos < st.position_marker
    THEN Range(st.position_marker, st.position_marker)
    ELSE Range(st.position_marker, to_pos)

\* parse_markup, "Add text from the last tag position to the current tag
\* position": the markup with the raw text up to the tag
WithGap(mk, text_range) ==
    IF RangeIsEmpty(text_range)
    THEN mk
    ELSE IF /\ mk # << >>
            /\ mk[Len(mk)].kind = "RawMarkup"
            /\ mk[Len(mk)].text_range.end = text_range.start
    THEN [mk EXCEPT ![Len(mk)].text_range.end = text_range.end]
    ELSE Append(mk, RawMarkupOf(text_range, NONE))

\* parse_markup, the test of "if add || tag.is_modified()"
Added(tag) ==
    \/ tag.id # ""
    \/ IsClose(tag.tag) /\ tag.open_tag.some /\ tag.open_tag.id # ""
    \/ IsModified(tag)

\* a parse_markup that appends the text after the last accepted tag as a
\* RawMarkup before it returns
ParseMarkupFlushes(got, mk, checks) ==
    LET tag == IF got.elem.kind = "SpecialTag"
               THEN ComponentTagFromXmlTag(got.elem.tag, got.elem.uid)
               ELSE got.elem
        p == TagPos(tag.tag, checks)
        marked == [got.st EXCEPT !.position_marker = got.st.input_position]
    IN  IF got.kind # "ok"
        THEN [got EXCEPT !.info = mk]
        ELSE IF got.what = "None"
        THEN [got EXCEPT !.what = "break",
                         !.info = WithGap(mk, GetRangeFromPositionMarker(got.st, Size))]
        ELSE IF got.elem.kind = "RawMarkup"
        THEN [got EXCEPT !.kind = "panic", !.what = "unreachable!()", !.info = mk]
        ELSE IF ~Added(tag)
        THEN [got EXCEPT !.what = "continue", !.elem = tag, !.info = mk]
        ELSE IF p.kind = "panic"
        THEN [got EXCEPT !.kind = "panic", !.elem = tag, !.info = mk,
                         !.what = "pos: attempt to subtract with overflow"]
        ELSE [got EXCEPT !.st = marked, !.what = "continue", !.elem = tag,
                         !.info = Append(WithGap(mk, GetRangeFromPositionMarker(got.st, p.pos)),
                                         tag)]

\* parse_markup, the body of its loop from what get_next_tag returned on;
\* info is the markup after it, what is "continue", "break" (Ok(markup) is
\* returned) or the error
ParseMarkupMatch(got, mk, checks) ==
    LET tag == IF got.elem.kind = "SpecialTag"
               THEN ComponentTagFromXmlTag(got.elem.tag, got.elem.uid)
               ELSE got.elem
        p == TagPos(tag.tag, checks)
        marked == [got.st EXCEPT !.position_marker = got.st.input_position]
    IN  IF got.kind # "ok"
        THEN [got EXCEPT !.info = mk]
        ELSE IF got.what = "None"
        THEN [got EXCEPT !.what = "break", !.info = mk]
        ELSE IF got.elem.kind = "RawMarkup"
        THEN [got EXCEPT !.kind = "panic", !.what = "unreachable!()", !.info = mk]
        ELSE IF ~Added(tag)
        THEN [got EXCEPT !.what = "continue", !.elem = tag, !.info = mk]
        ELSE IF p.kind = "panic"
        THEN [got EXCEPT !.kind = "panic", !.elem = tag, !.info = mk,
                         !.what = "pos: attempt to subtract with overflow"]
        ELSE [got EXCEPT !.st = marked, !.what = "continue", !.elem = tag,
                         !.info = Append(WithGap(mk, GetRangeFromPositionMarker(got.st, p.pos)),
                                         tag)]

\* parse_markup, one iteration of its loop on markup mk
ParseMarkupIteration(st, q, mk, chain, checks) ==
    ParseMarkupMatch(GetNextTag(st, q, chain, checks), mk, checks)

-----------------------------------------------------------------------------
(* The MarkupParser and its caller.                                        *)

\* the buffers a MarkupParser is constructed on
MarkupDocs ==
    {
      \* x<a>y</a>
      << "x", "<", "a", ">", "y", "<", "/", "a", ">" >>,
      \* <a>
      << "<", "a", ">" >>,
      \* x<b/>y
      << "x", "<", "b", "/", ">", "y" >>,
      \* x<!--c--><a>
      << "x", "<", "!", "-", "-", "c", "-", "-", ">", "<", "a", ">" >>,
      \* x</a><a>z
      << "x", "<", "/", "a", ">", "<", "a", ">", "z" >>,
      \* x<a>y<b/></a>z
      << "x", "<", "a", ">", "y", "<", "b", "/", ">", "<", "/", "a", ">", "z" >>,
      \* x<?p?><b/><c>
      << "x", "<", "?", "p", "?", ">", "<", "b", "/", ">", "<", "c", ">" >>,
      \* x<a
      << "x", "<", "a" >>,
      \* xy
      << "x", "y" >>,
      \* x<script>y</script>
      << "x", "<", "s", "c", "r", "i", "p", "t", ">", "y", "<", "/", "s", "c", "r", "i", "p", "t", ">" >>,
      \* <!--c--></a><a>
      << "<", "!", "-", "-", "c", "-", "-", ">", "<", "/", "a", ">", "<", "a", ">" >> }

\* the filter chains of at most n filters
RECURSIVE Chains(_)
Chains(n) ==
    IF n = 0
    THEN { << >> }
    ELSE LET shorter == Chains(n - 1)
         IN  shorter \cup { Append(c, f) : c \in shorter, f \in FilterKinds }

\* MarkupParser::new(input) with a filter chain pushed to it, in either
\* build profile
InitMarkup ==
    /\ stream = << >>
    /\ doc = << >>
    /\ encoding = "utf8"
    /\ input \in MarkupDocs
    /\ overflow_checks \in BOOLEAN
    /\ filters \in Chains(MaxFilters)
    /\ input_position = NewParser.input_position
    /\ line_number = NewParser.line_number
    /\ column_number = NewParser.column_number
    /\ last_line_count_index = NewParser.last_line_count_index
    /\ position_marker = NewParser.position_marker
    /\ skip_until_text = NewParser.skip_until_text
    /\ last_type = NewParser.last_type
    /\ last_text_range = NewParser.last_text_range
    /\ last_tag = NewParser.last_tag
    /\ doc_type_range = NewParser.doc_type_range
    /\ queue = << >>
    /\ markup = << >>
    /\ pc = "ready"
    /\ op = "new"
    /\ ret = Returned(Ok(NewParser, ""))
    /\ pre = NewParser
    /\ loops = 0
    /\ events = << >>
    /\ component_tag = ComponentTagDefault
    /\ flag_args = NeverSet

\* the caller of a MarkupParser method: parser and queue are left as the call
\* left them, and the call, what it did and what it returned are recorded
CalledMarkup(name, out) ==
    /\ SetParser(out.st)
    /\ queue' = out.queue
    /\ events' = out.events
    /\ op' = name
    /\ ret' = Returned(out)
    /\ pre' = Parser
    /\ loops' = out.n

\* a call of MarkupParser::get_next_tag
GetNextTagCall ==
    /\ pc = "ready"
    /\ CalledMarkup("get_next_tag", GetNextTag(Parser, queue, filters, overflow_checks))
    /\ pc' = After(ret')
    /\ UNCHANGED << component_tag, flag_args, stream, doc, encoding, input, overflow_checks, filters, markup >>

\* MarkupParser::parse_markup, one iteration of its loop per step: the call
\* starts at "ready" and is over at "done" (it returned) or "aborted"
ParseMarkupStep ==
    /\ pc \in {"ready", "parse_markup"}
    /\ CalledMarkup("parse_markup",
                    ParseMarkupIteration(Parser, queue, markup, filters, overflow_checks))
    /\ markup' = ret'.info
    /\ pc' = IF ret'.kind = "panic" THEN "aborted"
             ELSE IF ret'.kind = "err" \/ ret'.what = "break" THEN "done"
             ELSE "parse_markup"
    /\ UNCHANGED << component_tag, flag_args, stream, doc, encoding, input, overflow_checks, filters >>

NextMarkup ==
    \/ GetNextTagCall
    \/ ParseMarkupStep

SpecMarkup == InitMarkup /\ [][NextMarkup]_vars

-----------------------------------------------------------------------------
(* Byte streams: determine_encoding and XmlPullParser::new_stream.  A byte *)
(* is a number 0..255; a str is the sequence of its Unicode scalar values. *)
(* The literals of the code as scalar values:                              *)
(*   <?xml         << 60, 63, 120, 109, 108 >>                             *)
(*   ?>            << 63, 62 >>                                            *)
(*   encoding      << 101, 110, 99, 111, 100, 105, 110, 103 >>             *)
(*   =             << 61 >>                                                *)
(*   utf-8         << 117, 116, 102, 45, 56 >>                             *)
(*   utf8          << 117, 116, 102, 56 >>                                 *)
(*   utf-16        << 117, 116, 102, 45, 49, 54 >>                         *)
(*   utf-16le      << 117, 116, 102, 45, 49, 54, 108, 101 >>               *)
(*   utf-16be      << 117, 116, 102, 45, 49, 54, 98, 101 >>                *)
(*   utf-32le      << 117, 116, 102, 45, 51, 50, 108, 101 >>               *)
(*   utf-32be      << 117, 116, 102, 45, 51, 50, 98, 101 >>                *)
(*   iso-8859-1    << 105, 115, 111, 45, 56, 56, 53, 57, 45, 49 >>         *)
(*   latin1        << 108, 97, 116, 105, 110, 49 >>                        *)
(*   us-ascii      << 117, 115, 45, 97, 115, 99, 105, 105 >>               *)
(*   windows-1252  <<119,105,110,100,111,119,115,45,49,50,53,50>>          *)
(*   xxxx          << 120, 120, 120, 120, 32 >>                            *)
(*   <a>           << 60, 97, 62 >>                                        *)
(*   line feed 10, " 34, ' 39, x 120, U+00F1 241, U+00E9 233, U+FFFD 65533 *)

\* READ_AHEAD_SIZE of determine_encoding
READ_AHEAD_SIZE == 80

\* an EncodingResult
EncodingResult(label, len) == [encoding |-> label, bom_len |-> len]

\* the match of the BOM patterns over the first four bytes, first arm first
BomMatch(bom) ==
    CASE bom = << 255, 254, 0, 0 >> -> EncodingResult(<< 117, 116, 102, 45, 51, 50, 108, 101 >>, 4)
      [] bom = << 0, 0, 254, 255 >> -> EncodingResult(<< 117, 116, 102, 45, 51, 50, 98, 101 >>, 4)
      [] SubSeq(bom, 1, 3) = << 239, 187, 191 >> -> EncodingResult(<< 117, 116, 102, 45, 56 >>, 3)
      [] SubSeq(bom, 1, 2) = << 254, 255 >> -> EncodingResult(<< 117, 116, 102, 45, 49, 54, 98, 101 >>, 2)
      [] SubSeq(bom, 1, 2) = << 255, 254 >> -> EncodingResult(<< 117, 116, 102, 45, 49, 54, 108, 101 >>, 2)
      [] OTHER -> EncodingResult(<< 117, 116, 102, 45, 56 >>, 0)

\* the concatenation of the sequences f[lo], .., f[hi]
RECURSIVE Cat(_, _, _)
Cat(f, lo, hi) ==
    IF lo > hi THEN << >>
    ELSE IF lo = hi THEN f[lo]
    ELSE Cat(f, lo, (lo + hi) \div 2) \o Cat(f, (lo + hi) \div 2 + 1, hi)

\* a UTF-8 decoder at b[i] with no sequence pending: the bytes it takes (the
\* lead and the continuation bytes that may follow it), whether they are a
\* well-formed sequence, and its scalar value, U+FFFD when they are not
Utf8Seq(b, i) ==
    LET b0 == b[i]
        need == CASE b0 \in 194..223 -> 1
                  [] b0 \in 224..239 -> 2
                  [] b0 \in 240..244 -> 3
                  [] OTHER -> 0
        lo == IF b0 = 224 THEN 160 ELSE IF b0 = 240 THEN 144 ELSE 128
        hi == IF b0 = 237 THEN 159 ELSE IF b0 = 244 THEN 143 ELSE 191
        good(k) == /\ i + k <= Len(b)
                   /\ b[i + k] \in (IF k = 1 THEN lo..hi ELSE 128..191)
        taken == CHOOSE k \in 0..need :
                    /\ \A j \in 1..k : good(j)
                    /\ k < need => ~good(k + 1)
        low(k) == b[i + k] % 64
        ok == b0 < 128 \/ (need > 0 /\ taken = need)
    IN  [ len |-> 1 + taken,
          ok |-> ok,
          char |-> CASE ~ok -> 65533
                     [] need = 0 -> b0
                     [] need = 1 -> (b0 % 32) * 64 + low(1)
                     [] need = 2 -> ((b0 % 16) * 64 + low(1)) * 64 + low(2)
                     [] OTHER -> (((b0 % 8) * 64 + low(1)) * 64 + low(2)) * 64 + low(3) ]

\* the decoder starts a sequence at b[i]: b[i] is no continuation byte, or
\* one that the sequence of the lead before it did not take
Utf8Start(b, i) ==
    \/ b[i] \notin 128..191
    \/ ~\E d \in 1..3 :
           /\ i - d >= 1
           /\ b[i - d] \notin 128..191
           /\ \A e \in 1..(d - 1) : b[i - e] \in 128..191
           /\ d < Utf8Seq(b, i - d).len

\* the characters of the bytes b read as UTF-8, every malformed sequence
\* U+FFFD, and whether all sequences are well-formed (str::from_utf8 is Ok)
Utf8Chars(b) ==
    [ ok |-> \A i \in 1..Len(b) : Utf8Start(b, i) => Utf8Seq(b, i).ok,
      chars |-> Cat([i \in 1..Len(b) |->
                        IF Utf8Start(b, i) THEN << Utf8Seq(b, i).char >> ELSE << >>],
                    1, Len(b)) ]

\* `\s` of the regex crate: the characters with the property White_Space
RegexSpace(c) ==
    \/ c \in 9..13
    \/ c \in {32, 133, 160, 5760, 8232, 8233, 8239, 8287, 12288}
    \/ c \in 8192..8202

\* a literal of a pattern matches s at index i
LitAt(s, i, lit) ==
    /\ i >= 1
    /\ i + Len(lit) - 1 <= Len(s)
    /\ \A k \in 1..Len(lit) : s[i + k - 1] = lit[k]

\* the length of the longest run of `\s` characters of s that starts at index i
SpaceRun(s, i) ==
    LET stops == { k \in i..Len(s) : ~RegexSpace(s[k]) }
    IN  IF stops = {} THEN Len(s) + 1 - i ELSE Min(stops) - i

\* `.*\?>` matches s from index p: the indexes of the `?>` it can end with
\* (`.` is every character but the line feed)
TailMatches(s, p) ==
    { q \in p..Len(s) : LitAt(s, q, << 63, 62 >>) /\ \A k \in p..(q - 1) : s[k] # 10 }

\* XML_DECL = ^<\?xml(\s+.*)?\?> on s: the length of the match, NONE when
\* there is none.  Greedy: the longest `\s+` that lets the rest match, then
\* the longest `.*`; the group is left out only when it cannot match.
XmlDecl(s) ==
    LET after == Len(<< 60, 63, 120, 109, 108 >>) + 1
        spaces == { k \in 1..SpaceRun(s, after) : TailMatches(s, after + k) # {} }
        Max(S) == CHOOSE x \in S : \A y \in S : y <= x
    IN  IF ~LitAt(s, 1, << 60, 63, 120, 109, 108 >>) THEN NONE
        ELSE IF spaces # {} THEN Max(TailMatches(s, after + Max(spaces))) + 1
        ELSE IF LitAt(s, after, << 63, 62 >>) THEN after + 1
        ELSE NONE

\* the alternation (["'](.*?)["']|(\S*)) of XML_ENCODING at index a of s, with
\* `.*\?>` after it: group 2 or group 3 as an Option<&str>.  The quoted arm is
\* tried first, its `.*?` lazy; the `\S*` of the second arm is greedy.
EncodingValue(s, a) ==
    LET quotes == {34, 39}
        closing == { c \in (a + 1)..Len(s) :
                        /\ s[c] \in quotes
                        /\ \A k \in (a + 1)..(c - 1) : s[k] # 10
                        /\ TailMatches(s, c + 1) # {} }
        ends == { e \in a..(Len(s) + 1) :
                        /\ \A k \in a..(e - 1) : ~RegexSpace(s[k])
                        /\ TailMatches(s, e) # {} }
        Max(S) == CHOOSE x \in S : \A y \in S : y <= x
    IN  IF a <= Len(s) /\ s[a] \in quotes /\ closing # {}
        THEN [some |-> TRUE, str |-> SubSeq(s, a + 1, Min(closing) - 1)]
        ELSE IF ends # {}
        THEN [some |-> TRUE, str |-> SubSeq(s, a, Max(ends) - 1)]
        ELSE [some |-> FALSE, str |-> << >>]

\* XML_ENCODING = \s+encoding\s*=\s*(["'](.*?)["']|(\S*)).*\?> with the word
\* `encoding` at index e of s: `\s*=\s*` greedy, the second `\s*` giving
\* characters back only when the alternation cannot match after all of them
EncodingAt(s, e) ==
    LET eq == e + Len(<< 101, 110, 99, 111, 100, 105, 110, 103 >>) + SpaceRun(s, e + Len(<< 101, 110, 99, 111, 100, 105, 110, 103 >>))
        values == { v \in 0..SpaceRun(s, eq + 1) : EncodingValue(s, eq + 1 + v).some }
        Max(S) == CHOOSE x \in S : \A y \in S : y <= x
    IN  IF LitAt(s, eq, << 61 >>) /\ values # {}
        THEN EncodingValue(s, eq + 1 + Max(values))
        ELSE [some |-> FALSE, str |-> << >>]

\* XML_ENCODING.captures(s) and cap.get(2).or_else(|| cap.get(3)): the
\* leftmost match, which is the one of the first `encoding` after a `\s`
\* that matches
XmlEncoding(s) ==
    LET words == { e \in 2..Len(s) :
                      /\ RegexSpace(s[e - 1])
                      /\ LitAt(s, e, << 101, 110, 99, 111, 100, 105, 110, 103 >>)
                      /\ EncodingAt(s, e).some }
    IN  IF words = {} THEN [some |-> FALSE, str |-> << >>]
        ELSE EncodingAt(s, Min(words))

\* u8::to_ascii_lowercase on a scalar value
AsciiLowercase(c) == IF c \in 65..90 THEN c + 32 ELSE c

\* str::eq_ignore_ascii_case on sequences of scalar values
EqIgnoreCase(a, b) ==
    /\ Len(a) = Len(b)
    /\ \A i \in 1..Len(a) : AsciiLowercase(a[i]) = AsciiLowercase(b[i])

\* what determine_encoding or new_stream returned: Ok(value) or Err(error)
EncOk(value) == [kind |-> "ok", what |-> "", value |-> value]
EncErr(what, fields) == [kind |-> "err", what |-> what, value |-> fields]

\* determine_encoding from the reconciliation on: the BOM against the
\* `<?xml` declaration with which xml_start begins
Reconcile(result, xml_start, xml_decl, encoding_opt) ==
    IF ~xml_start.ok THEN EncErr("Utf8Error", << >>)
    ELSE IF xml_decl = NONE THEN EncErr("InvalidXmlDeclaration", << >>)
    ELSE IF ~encoding_opt.some THEN EncOk(result)
    ELSE IF result.bom_len = 0 THEN EncOk(EncodingResult(encoding_opt.str, 0))
    ELSE IF EqIgnoreCase(encoding_opt.str, result.encoding) THEN EncOk(result)
    ELSE EncErr("XmlEncodingMismatch",
                [bom |-> result.encoding, attribute |-> encoding_opt.str])

\* determine_encoding after the BOM match, on the result of str::from_utf8
\* for the bytes after the BOM
DecodeHead(result, xml_start) ==
    Reconcile(result, xml_start, XmlDecl(xml_start.chars),
              XmlEncoding(SubSeq(xml_start.chars, 1, XmlDecl(xml_start.chars))))

\* determine_encoding(buffer)
DetermineEncoding(buffer) ==
    LET read_ahead == IF READ_AHEAD_SIZE < Len(buffer) THEN READ_AHEAD_SIZE
                      ELSE Len(buffer)
        result == BomMatch(SubSeq(buffer, 1, 4))
    IN  IF read_ahead < 4
        THEN EncOk(EncodingResult(<< 117, 116, 102, 45, 56 >>, 0))
        ELSE DecodeHead(result,
                        Utf8Chars(SubSeq(buffer, result.bom_len + 1, read_ahead)))

\* the largest element of a set of indexes (a greedy repetition)
Max(S) == CHOOSE x \in S : \A y \in S : y <= x

\* encoding_rs::Encoding::for_label(..).map(|e| e.name()) for the labels the
\* streams of the model resolve to: ASCII whitespace trimmed, ASCII case
\* ignored; "" is None
ForLabel(label) ==
    LET kept == { i \in 1..Len(label) : label[i] \notin {9, 10, 12, 13, 32} }
        trimmed == IF kept = {} THEN << >> ELSE SubSeq(label, Min(kept), Max(kept))
        l == [i \in 1..Len(trimmed) |-> AsciiLowercase(trimmed[i])]
    IN  CASE l \in {<< 117, 116, 102, 45, 56 >>, << 117, 116, 102, 56 >>} -> "UTF-8"
          [] l \in {<< 117, 116, 102, 45, 49, 54, 108, 101 >>, << 117, 116, 102, 45, 49, 54 >>} -> "UTF-16LE"
          [] l = << 117, 116, 102, 45, 49, 54, 98, 101 >> -> "UTF-16BE"
          [] l \in {<< 105, 115, 111, 45, 56, 56, 53, 57, 45, 49 >>, << 108, 97, 116, 105, 110, 49 >>, << 117, 115, 45, 97, 115, 99, 105, 105 >>, << 119, 105, 110, 100, 111, 119, 115, 45, 49, 50, 53, 50 >>} ->
                "windows-1252"
          [] OTHER -> ""

\* Encoding::decode_without_bom_handling: the characters of the text, a
\* malformed sequence replaced by U+FFFD
Decode(name, b) ==
    LET \* the characters 0x80..0x9F of windows-1252
        high1252 ==
            << 8364, 129, 8218, 402, 8222, 8230, 8224, 8225, 710, 8240, 352, 8249,
               338, 141, 381, 143, 144, 8216, 8217, 8220, 8221, 8226, 8211, 8212,
               732, 8482, 353, 8250, 339, 157, 382, 376 >>
        unit(k) == IF name = "UTF-16LE" THEN b[k] + 256 * b[k + 1]
                   ELSE 256 * b[k] + b[k + 1]
        high(k) == k + 1 <= Len(b) /\ unit(k) \in 55296..56319
        low(k) == k + 1 <= Len(b) /\ unit(k) \in 56320..57343
        utf16(i) ==
            CASE i % 2 = 0 -> << >>
              [] i = Len(b) -> << 65533 >>
              [] high(i) /\ low(i + 2) ->
                    << 65536 + (unit(i) - 55296) * 1024 + (unit(i + 2) - 56320) >>
              [] high(i) -> << 65533 >>
              [] low(i) -> IF i > 2 /\ high(i - 2) THEN << >> ELSE << 65533 >>
              [] OTHER -> << unit(i) >>
    IN  CASE name = "UTF-8" -> Utf8Chars(b).chars
          [] name = "windows-1252" ->
                [i \in 1..Len(b) |->
                    IF b[i] \in 128..159 THEN high1252[b[i] - 127] ELSE b[i]]
          [] OTHER -> Cat([i \in 1..Len(b) |-> utf16(i)], 1, Len(b))

\* XmlPullParser::new_stream from the decoder on: Encoding::decode sniffs a
\* BOM at the start of the bytes it is given and decodes what follows it
DecodeStream(label, name, bytes) ==
    IF name = "" THEN EncErr("NoDecoder", [encoding |-> label])
    ELSE LET utf8 == LitAt(bytes, 1, << 239, 187, 191 >>)
             utf16le == LitAt(bytes, 1, << 255, 254 >>)
             utf16be == LitAt(bytes, 1, << 254, 255 >>)
             used == IF utf8 THEN "UTF-8"
                     ELSE IF utf16le THEN "UTF-16LE"
                     ELSE IF utf16be THEN "UTF-16BE"
                     ELSE name
             skip == IF utf8 THEN 3 ELSE IF utf16le \/ utf16be THEN 2 ELSE 0
         IN  EncOk([encoding |-> used, input |-> Decode(used, SubSeq(bytes, skip + 1, Len(bytes)))])

\* XmlPullParser::new_stream(input, input_size) on the bytes read from input
NewStream(buffer, determined) ==
    IF determined.kind = "err" THEN determined
    ELSE DecodeStream(determined.value.encoding,
                      ForLabel(determined.value.encoding),
                      SubSeq(buffer, determined.value.bom_len + 1, Len(buffer)))

-----------------------------------------------------------------------------
(* The byte streams a parser is opened on.                                 *)

\* the byte order marks, each with the encoding it stands for; the first is
\* no byte order mark
Boms ==
    { [bytes |-> << >>, encoding |-> << >>, charset |-> "utf-8"],
      [bytes |-> << 239, 187, 191 >>, encoding |-> << 117, 116, 102, 45, 56 >>, charset |-> "utf-8"],
      [bytes |-> << 255, 254 >>, encoding |-> << 117, 116, 102, 45, 49, 54, 108, 101 >>, charset |-> "utf-16le"],
      [bytes |-> << 254, 255 >>, encoding |-> << 117, 116, 102, 45, 49, 54, 98, 101 >>, charset |-> "utf-16be"],
      [bytes |-> << 255, 254, 0, 0 >>, encoding |-> << 117, 116, 102, 45, 51, 50, 108, 101 >>, charset |-> "utf-32le"],
      [bytes |-> << 0, 0, 254, 255 >>, encoding |-> << 117, 116, 102, 45, 51, 50, 98, 101 >>, charset |-> "utf-32be"] }

\* the bytes of a text in a character set: UTF-8, ISO-8859-1, UTF-16 or UTF-32
Encode(charset, chars) ==
    LET lo(c) == c % 256
        hi(c) == c \div 256
        bytes(c) ==
            CASE charset = "latin1" -> << c >>
              [] charset = "utf-16le" -> << lo(c), hi(c) >>
              [] charset = "utf-16be" -> << hi(c), lo(c) >>
              [] charset = "utf-32le" -> << lo(c), hi(c), 0, 0 >>
              [] charset = "utf-32be" -> << 0, 0, hi(c), lo(c) >>
              [] OTHER -> IF c < 128 THEN << c >>
                          ELSE IF c < 2048 THEN << 192 + (c \div 64), 128 + (c % 64) >>
                          ELSE << 224 + (c \div 4096), 128 + ((c \div 64) % 64),
                                  128 + (c % 64) >>
    IN  Cat([i \in 1..Len(chars) |-> bytes(chars[i])], 1, Len(chars))

\* the `<?xml ..?>` declarations: none, without an encoding, and with an
\* encoding in the ways the tests of xml_pull_parser.rs write it
Declarations ==
    LET none == [some |-> FALSE, str |-> << >>]
        names ==
            {
              \* UTF-8
              << 85, 84, 70, 45, 56 >>,
              \* utf-8
              << 117, 116, 102, 45, 56 >>,
              \* iso-8859-1
              << 105, 115, 111, 45, 56, 56, 53, 57, 45, 49 >>,
              \* UTF-16LE
              << 85, 84, 70, 45, 49, 54, 76, 69 >>,
              \* utf-16be
              << 117, 116, 102, 45, 49, 54, 98, 101 >>,
              \* utf-32le
              << 117, 116, 102, 45, 51, 50, 108, 101 >>,
              \* UTF-32BE
              << 85, 84, 70, 45, 51, 50, 66, 69 >>,
              \* XXX
              << 88, 88, 88 >> }
        bare ==
            {
              \* <?xml?>
              << 60, 63, 120, 109, 108, 63, 62 >>,
              \* <?xml version="1.0"?>
              << 60, 63, 120, 109, 108, 32, 118, 101, 114, 115, 105, 111, 110, 61, 34, 49, 46, 48, 34, 63, 62 >> }
        \* what stands before and after the name
        forms ==
            {
              \* <?xml version="1.0" encoding=".." ?>
              << << 60, 63, 120, 109, 108, 32, 118, 101, 114, 115, 105, 111, 110, 61, 34, 49, 46, 48, 34, 32, 101, 110, 99, 111, 100, 105, 110, 103, 61, 34 >>,
                 << 34, 32, 63, 62 >> >>,
              \* <?xml encoding='..'version="1.0"?>
              << << 60, 63, 120, 109, 108, 32, 101, 110, 99, 111, 100, 105, 110, 103, 61, 39 >>,
                 << 39, 118, 101, 114, 115, 105, 111, 110, 61, 34, 49, 46, 48, 34, 63, 62 >> >>,
              \* <?xml encoding=.. ?>
              << << 60, 63, 120, 109, 108, 32, 101, 110, 99, 111, 100, 105, 110, 103, 61 >>,
                 << 32, 63, 62 >> >>,
              \* <?xml encoding = ".." standalone="yes"?>
              << << 60, 63, 120, 109, 108, 32, 101, 110, 99, 111, 100, 105, 110, 103, 32, 61, 32, 34 >>,
                 << 34, 32, 115, 116, 97, 110, 100, 97, 108, 111, 110, 101, 61, 34, 121, 101, 115, 34, 63, 62 >> >>,
              \* <?xml version="1.0"\nencoding=".."?>
              << << 60, 63, 120, 109, 108, 32, 118, 101, 114, 115, 105, 111, 110, 61, 34, 49, 46, 48, 34, 10, 101, 110, 99, 111, 100, 105, 110, 103, 61, 34 >>,
                 << 34, 63, 62 >> >> }
    IN  { [text |-> << >>, present |-> FALSE, declared |-> none] }
        \cup { [text |-> d, present |-> TRUE, declared |-> none] : d \in bare }
        \cup { [text |-> f[1] \o v \o f[2], present |-> TRUE,
                declared |-> [some |-> TRUE, str |-> v]] : v \in names, f \in forms }

\* how the streams of the model are written: a byte order mark or none, then
\* the text in the character set of the mark, in UTF-8 or, with no mark, in
\* ISO-8859-1.  The text is a declaration or none with a text before it
\* (none, the `xxxx ` of test::encoding, a space, a letter outside ASCII, a
\* text whose last letter lies across the end of the bytes determine_encoding
\* reads) and a text after it.
StreamDocs ==
    LET pad(n) == [i \in 1..n |-> 120]
        leads == { << >>, << 120, 120, 120, 120, 32 >>, << 32 >>, << 241 >>,
                   pad(READ_AHEAD_SIZE - 1) \o << 233 >> }
        bodies == { << >>, << 60, 97, 62 >>, << 241 >> \o << 60, 97, 62 >>,
                    pad(READ_AHEAD_SIZE) \o << 60, 97, 62 >> }
    IN  { d \in [bom : Boms, charset : {"bom", "utf-8", "latin1"}, lead : leads,
                 decl : Declarations, body : bodies] :
             /\ d.charset = "latin1" => d.bom.bytes = << >>
             /\ d.charset = "utf-8" => d.bom.charset # "utf-8" }

\* the bytes of a stream
StreamBytes(d) ==
    d.bom.bytes \o Encode(IF d.charset = "bom" THEN d.bom.charset ELSE d.charset,
                          d.lead \o d.decl.text \o d.body)

\* a byte stream before it is opened
InitEncoding ==
    /\ doc \in StreamDocs
    /\ stream = StreamBytes(doc)
    /\ encoding = "utf8"
    /\ input = << >>
    /\ overflow_checks = FALSE
    /\ input_position = NewParser.input_position
    /\ line_number = NewParser.line_number
    /\ column_number = NewParser.column_number
    /\ last_line_count_index = NewParser.last_line_count_index
    /\ position_marker = NewParser.position_marker
    /\ skip_until_text = NewParser.skip_until_text
    /\ last_type = NewParser.last_type
    /\ last_text_range = NewParser.last_text_range
    /\ last_tag = NewParser.last_tag
    /\ doc_type_range = NewParser.doc_type_range
    /\ filters = << >>
    /\ queue = << >>
    /\ markup = << >>
    /\ pc = "stream"
    /\ op = "read"
    /\ ret = EncOk(<< >>)
    /\ pre = NewParser
    /\ loops = 0
    /\ events = << >>
    /\ component_tag = ComponentTagDefault
    /\ flag_args = NeverSet

\* a call of determine_encoding on the bytes of the stream
DetermineEncodingCall ==
    /\ pc = "stream"
    /\ op' = "determine_encoding"
    /\ ret' = DetermineEncoding(stream)
    /\ UNCHANGED << component_tag, flag_args, stream, doc, encoding, input, overflow_checks, input_position,
                    line_number, column_number, last_line_count_index, position_marker,
                    skip_until_text, last_type, last_text_range, last_tag,
                    doc_type_range, filters, queue, markup, pc, pre, loops, events >>

\* a call of XmlPullParser::new_stream on the stream: the parser it builds
\* reads the decoded text, and an error leaves the caller with no parser
NewStreamCall ==
    /\ pc = "stream"
    /\ op' = "new_stream"
    /\ ret' = NewStream(stream, DetermineEncoding(stream))
    /\ pc' = IF ret'.kind = "ok" THEN "ready" ELSE "failed"
    /\ input' = IF ret'.kind = "ok" THEN ret'.value.input ELSE input
    /\ encoding' = IF ret'.kind = "ok" THEN ret'.value.encoding ELSE encoding
    /\ UNCHANGED << component_tag, flag_args, stream, doc, overflow_checks, input_position, line_number,
                    column_number, last_line_count_index, position_marker,
                    skip_until_text, last_type, last_text_range, last_tag,
                    doc_type_range, filters, queue, markup, pre, loops, events >>

NextEncoding ==
    \/ DetermineEncodingCall
    \/ NewStreamCall

SpecEncoding == InitEncoding /\ [][NextEncoding]_vars

-----------------------------------------------------------------------------
(* A ComponentTag and the caller of its flag setters and getters.          *)

\* ComponentTag::default() in the hands of a caller; there is no parser
InitFlags ==
    /\ stream = << >>
    /\ doc = << >>
    /\ encoding = "utf8"
    /\ input = << >>
    /\ overflow_checks = FALSE
    /\ input_position = NewParser.input_position
    /\ line_number = NewParser.line_number
    /\ column_number = NewParser.column_number
    /\ last_line_count_index = NewParser.last_line_count_index
    /\ position_marker = NewParser.position_marker
    /\ skip_until_text = NewParser.skip_until_text
    /\ last_type = NewParser.last_type
    /\ last_text_range = NewParser.last_text_range
    /\ last_tag = NewParser.last_tag
    /\ doc_type_range = NewParser.doc_type_range
    /\ filters = << >>
    /\ queue = << >>
    /\ markup = << >>
    /\ pc = "ready"
    /\ op = "default"
    /\ ret = [kind |-> "ok", value |-> NONE]
    /\ pre = NewParser
    /\ loops = 0
    /\ events = << >>
    /\ component_tag = ComponentTagDefault
    /\ flag_args = NeverSet

\* a call of a setter of the tag: the tag is left as the setter left it and
\* the argument is recorded
CalledSetter(name, flag, arg, ct) ==
    /\ component_tag' = ct
    /\ flag_args' = [flag_args EXCEPT ![flag] = arg]
    /\ op' = name
    /\ ret' = [kind |-> "ok", value |-> NONE]
    /\ UNCHANGED << stream, doc, encoding, input, overflow_checks, input_position, line_number,
                    column_number, last_line_count_index, position_marker, skip_until_text,
                    last_type, last_text_range, last_tag, doc_type_range, filters, queue,
                    markup, pc, pre, loops, events >>

\* a call of a getter of the tag: what it returned is recorded
CalledGetter(name, value) ==
    /\ op' = name
    /\ ret' = [kind |-> "ok", value |-> value]
    /\ UNCHANGED << component_tag, flag_args, stream, doc, encoding, input, overflow_checks,
                    input_position, line_number, column_number, last_line_count_index,
                    position_marker, skip_until_text, last_type, last_text_range, last_tag,
                    doc_type_range, filters, queue, markup, pc, pre, loops, events >>

\* a call of ComponentTag::set_modified
SetModifiedCall ==
    /\ pc = "ready"
    /\ \E arg \in BOOLEAN :
          CalledSetter("set_modified", "MODIFIED", arg, SetModified(component_tag, arg))

\* a call of ComponentTag::set_has_no_close_tag
SetHasNoCloseTagCall ==
    /\ pc = "ready"
    /\ \E arg \in BOOLEAN :
          CalledSetter("set_has_no_close_tag", "NO_CLOSE_TAG", arg, SetHasNoCloseTag(component_tag, arg))

\* a call of ComponentTag::set_contains_wicket_id
SetContainsWicketIdCall ==
    /\ pc = "ready"
    /\ \E arg \in BOOLEAN :
          CalledSetter("set_contains_wicket_id", "CONTAINS_WICKET_ID", arg, SetContainsWicketId(component_tag, arg))

\* a call of ComponentTag::set_ignore
SetIgnoreCall ==
    /\ pc = "ready"
    /\ \E arg \in BOOLEAN :
          CalledSetter("set_ignore", "IGNORE", arg, SetIgnore(component_tag, arg))

\* a call of ComponentTag::set_auto_component_tag
SetAutoComponentTagCall ==
    /\ pc = "ready"
    /\ \E arg \in BOOLEAN :
          CalledSetter("set_auto_component_tag", "AUTO_COMPONENT", arg, SetAutoComponentTag(component_tag, arg))

\* a call of ComponentTag::is_modified
IsModifiedCall ==
    /\ pc = "ready"
    /\ CalledGetter("is_modified", IsModified(component_tag))

\* a call of ComponentTag::is_has_no_close_tag
IsHasNoCloseTagCall ==
    /\ pc = "ready"
    /\ CalledGetter("is_has_no_close_tag", IsHasNoCloseTag(component_tag))

\* a call of ComponentTag::is_contains_wicket_id
IsContainsWicketIdCall ==
    /\ pc = "ready"
    /\ CalledGetter("is_contains_wicket_id", IsContainsWicketId(component_tag))

\* a call of ComponentTag::is_ignore
IsIgnoreCall ==
    /\ pc = "ready"
    /\ CalledGetter("is_ignore", IsIgnore(component_tag))

\* a call of ComponentTag::is_auto_component_tag
IsAutoComponentTagCall ==
    /\ pc = "ready"
    /\ CalledGetter("is_auto_component_tag", IsAutoComponentTag(component_tag))

NextFlags ==
    \/ SetModifiedCall
    \/ SetHasNoCloseTagCall
    \/ SetContainsWicketIdCall
    \/ SetIgnoreCall
    \/ SetAutoComponentTagCall
    \/ IsModifiedCall
    \/ IsHasNoCloseTagCall
    \/ IsContainsWicketIdCall
    \/ IsIgnoreCall
    \/ IsAutoComponentTagCall

SpecFlags == InitFlags /\ [][NextFlags]_vars

-----------------------------------------------------------------------------
(* Properties of the tokenizer.                                            *)

\* the last call was next_iteration on a parser that no call had touched
FirstAdvance == op = "next_iteration" /\ pre = NewParser

\* the buffer holds no '<'
NoOpenBracket == \A i \in 1..Size : input[i] # "<"

\* C6: every call of next_iteration returns a token type or one typed
\* error; no call ends in a panic (index past the end, reversed slice,
\* unsigned underflow).
C6_NoAbnormalAbort ==
    op = "next_iteration" => ret.kind \in {"ok", "err"}

\* C7: every successful next_iteration that does not return End either
\* moves the cursor strictly forward or clears an armed skip_until_text, and
\* the raw-text, CDATA and next_tag loops run at most once per remaining
\* character of the buffer (plus the iteration that ends them).
C7_Progress ==
    /\ (op = "next_iteration" /\ ret.kind = "ok" /\ ret.what # "NotInitialized")
          => \/ input_position > pre.input_position
             \/ pre.skip_until_text # "None" /\ skip_until_text = "None"
    /\ op = "next_iteration" => loops <= Size - pre.input_position
    /\ op = "next_tag" => loops <= Size - pre.input_position + 2

\* C7 happens: an armed parser standing on the end tag returns an empty
\* Body without moving, and is disarmed by it
C7_Witness ==
    /\ op = "next_iteration"
    /\ ret.kind = "ok"
    /\ ret.what = "Body"
    /\ input_position = pre.input_position
    /\ pre.skip_until_text = "Script"
    /\ skip_until_text = "None"

\* C8: at the end of the buffer next_iteration returns End (NotInitialized)
\* and leaves the cursor, skip_until_text, last_type, last_text_range and
\* last_tag as they were, so every later call does the same.
C8_EndIdempotent ==
    (op = "next_iteration" /\ pre.input_position = Size)
       => /\ ret.kind = "ok"
          /\ ret.what = "NotInitialized"
          /\ Parser = pre

\* C8 happens: End is returned by a parser that stands at the end of a
\* non-empty buffer with skip_until_text armed, and it stays armed
C8_Witness ==
    /\ op = "next_iteration"
    /\ Size > 0
    /\ pre.input_position = Size
    /\ pre.skip_until_text = "Script"
    /\ ret.what = "NotInitialized"
    /\ skip_until_text = "Script"

\* C9, as stated: on every buffer without '<' the first next_iteration
\* returns Body with the cursor at the end of the buffer, the next one
\* returns End, and next_tag returns no tag.
C9_BodyThenEnd ==
    NoOpenBracket
       => /\ FirstAdvance
             => /\ ret.kind = "ok"
                /\ ret.what = "Body"
                /\ pre.input_position = 0
                /\ input_position = Size
          /\ (op = "next_iteration" /\ pre.last_type = "Body")
             => ret.kind = "ok" /\ ret.what = "NotInitialized"
          /\ op = "next_tag" => ret.kind = "ok" /\ ret.what = "None"

\* C9, amended: the same on every non-empty buffer without '<'; on the
\* empty buffer the first next_iteration returns End at once.
C9_BodyThenEndNonEmpty ==
    /\ (NoOpenBracket /\ Size > 0) => C9_BodyThenEnd
    /\ (Size = 0 /\ op = "next_iteration")
          => ret.kind = "ok" /\ ret.what = "NotInitialized"
    /\ (Size = 0 /\ op = "next_tag") => ret.kind = "ok" /\ ret.what = "None"

\* C9 happens: the second next_iteration on a non-empty buffer without '<'
C9_Witness ==
    /\ NoOpenBracket
    /\ Size > 0
    /\ op = "next_iteration"
    /\ pre.last_type = "Body"
    /\ pre.input_position = Size
    /\ ret.what = "NotInitialized"

\* C1: after an Open script (or style) tag that is followed by its close
\* tag, next_iteration returns one Body that ends on the first `</script`
\* (`</style`), whatever '<' the text before it holds, and the next call
\* returns the Close tag of that name.
C1_RawTextBody ==
    \A name \in {SCRIPT, STYLE} :
       LET open == pre.last_text_range.start
           after == open + 1 + Len(name)
           opened == /\ pre.last_type = "Tag"
                     /\ pre.input_position = pre.last_text_range.end
                     /\ after < pre.input_position
                     /\ EqIgnoreAsciiCase(Slice(open + 1, after), name)
                     /\ IsWhitespace(CharAt(after)) \/ CharAt(after) = ">"
                     /\ CharAt(pre.input_position - 2) # "/"
           closes == { k \in pre.input_position..(Size - Len(name) - 3) :
                         /\ Slice(k, k + 2) = LtSlash
                         /\ EqIgnoreAsciiCase(Slice(k + 2, k + 2 + Len(name)), name)
                         /\ FindCharAt(">", k + 2 + Len(name)) # NONE }
       IN  /\ (op = "next_iteration" /\ opened /\ closes # {})
              => /\ ret.kind = "ok"
                 /\ ret.what = "Body"
                 /\ input_position = Min(closes)
           /\ (op = "next_iteration" /\ pre.last_type = "Body"
                  /\ pre.input_position \in closes /\ pre.skip_until_text = "None")
              => /\ ret.kind = "ok"
                 /\ ret.what = "Tag"
                 /\ last_tag.tag_type = "Close"
                 /\ EqIgnoreAsciiCase(TagName(last_tag), name)

\* C2: on a conditional-comment opener `<!--[if ...]>` with a later `]-->`
\* next_iteration returns ConditionalComment and leaves the cursor just past
\* the opener's own '>'; the `<![endif]-->` after the markup it encloses is
\* returned as ConditionalCommentEndif, with the cursor just past it.
C2_ConditionalComment ==
    LET p == pre.input_position
        gt == FindCharAt(">", p)
        opener == /\ StartsWith(Range(p, Size), << "<" >> \o LitIf)
                  /\ CharAt(gt - 1) = "]"
                  /\ FindStrAt(<< "]", "-", "-", ">" >>, p + 1) # NONE
        enclosed == \E q \in 0..(p - 1) :
                       /\ StartsWith(Range(q, Size), << "<" >> \o LitIf)
                       /\ FindCharAt(">", q) < p
                       /\ CharAt(FindCharAt(">", q) - 1) = "]"
        endif == StartsWith(Range(p, Size), << "<" >> \o LitEndif \o << ">" >>)
    IN  /\ (op = "next_iteration" /\ pre.skip_until_text = "None" /\ opener)
           => /\ ret.kind = "ok"
              /\ ret.what = "ConditionalComment"
              /\ input_position = gt + 1
        /\ (op = "next_iteration" /\ pre.skip_until_text = "None" /\ enclosed /\ endif)
           => /\ ret.kind = "ok"
              /\ ret.what = "ConditionalCommentEndif"
              /\ input_position = p + Len(LitEndif) + 2

\* C10: a tag returned by next_iteration is OpenClose when its inner text
\* ends with '/', Close when it starts with '/', else Open; its name is the
\* inner text without that slash up to the first whitespace; a ':' in it
\* splits it into the namespace before the first colon and the local name
\* after it, and without ':' the tag has no namespace.
C10_TagClassification ==
    (op = "next_iteration" /\ ret.kind = "ok" /\ ret.what = "Tag")
       => LET inner == Range(last_text_range.start + 1, last_text_range.end - 1)
              type == IF CharAt(inner.end - 1) = "/" THEN "OpenClose"
                      ELSE IF CharAt(inner.start) = "/" THEN "Close"
                      ELSE "Open"
              from == IF type = "Close" THEN inner.start + 1 ELSE inner.start
              to == IF type = "OpenClose" THEN inner.end - 1 ELSE inner.end
              spaces == { k \in from..(to - 1) : IsWhitespace(CharAt(k)) }
              name_end == IF spaces = {} THEN to ELSE Min(spaces)
              colons == { k \in from..(name_end - 1) : CharAt(k) = ":" }
          IN  /\ last_tag.tag_type = type
              /\ IF colons = {}
                 THEN /\ last_tag.namespace_range = NORANGE
                      /\ TagName(last_tag) = Slice(from, name_end)
                 ELSE /\ last_tag.namespace_range # NORANGE
                      /\ TagNamespace(last_tag) = Slice(from, Min(colons))
                      /\ TagName(last_tag) = Slice(Min(colons) + 1, name_end)

-----------------------------------------------------------------------------
(* Properties of the filter pipeline and of parse_markup.                  *)

\* the last call ran get_next_tag: directly, or as an iteration of parse_markup
RanGetNextTag == op \in {"get_next_tag", "parse_markup"}

\* the k-th thing the last get_next_tag did is a filter that drops its element
IsDrop(k) ==
    /\ events[k].e = "filter"
    /\ \/ events[k].result = "Drop"
       \/ events[k].result = "Replace" /\ events[k].n = 0

\* C3: after a filter returns a non-empty Replace(list) the first item goes
\* on to the next filter of the chain (or is returned when the replacing
\* filter is the last), and an element delivered from the buffer of the
\* other items is run through every filter of the chain, from the first,
\* before it is returned.
C3_ReplaceRerunsChain ==
    RanGetNextTag =>
       /\ \A k \in 1..Len(events) :
             (events[k].e = "filter" /\ events[k].result = "Replace" /\ events[k].n >= 1)
                => /\ k < Len(events)
                   /\ IF events[k].filter < Len(filters)
                      THEN /\ events[k + 1].e = "filter"
                           /\ events[k + 1].filter = events[k].filter + 1
                      ELSE events[k + 1].e = "return"
       /\ \A k \in 1..Len(events) :
             events[k].e = "pop"
                => \A i \in 1..Len(filters) :
                      \E j \in (k + 1)..Len(events) :
                         /\ events[j].e = "filter"
                         /\ events[j].filter = i
                         /\ events[j].uid = events[k].uid

\* C4: when a filter returns Drop, or Replace with an empty list, for an
\* element, the next thing get_next_tag does is pull a fresh token: no later
\* filter runs on the element, the call does not return it, and it is not
\* left in the buffer of elements to deliver later.
C4_DropNeverDelivered ==
    RanGetNextTag =>
       \A k \in 1..Len(events) :
          IsDrop(k)
             => /\ k < Len(events)
                /\ events[k + 1].e = "pull"
                /\ \A j \in (k + 1)..Len(events) : events[j].uid # events[k].uid
                /\ ret.elem.uid # events[k].uid
                /\ \A j \in 1..Len(queue) : queue[j].uid # events[k].uid

\* a call of get_next_tag on a chain of two filters in which the first
\* filter dropped one element, the second returned an empty Replace for
\* another, and a third element was returned
C4_Witness ==
    /\ RanGetNextTag
    /\ Len(filters) = 2
    /\ \E k \in 1..Len(events) :
          events[k].e = "filter" /\ events[k].result = "Drop" /\ events[k].filter = 1
    /\ \E k \in 1..Len(events) :
          events[k].e = "filter" /\ events[k].result = "Replace" /\ events[k].n = 0
                                /\ events[k].filter = 2
    /\ events[Len(events)].e = "return"
    /\ ret.kind = "ok"
    /\ ret.elem.kind = "ComponentTag"

\* C5: an iteration of parse_markup that got a tag appends it to the markup
\* if and only if its id is not empty, or it is a Close tag whose open tag
\* has a non-empty id, or it has been marked modified.
C5_IncludedIffSignificant ==
    (op = "parse_markup" /\ ret.kind = "ok" /\ ret.what = "continue")
       => ( (markup # << >> /\ markup[Len(markup)] = ret.elem)
            <=> \/ ret.elem.id # ""
                \/ /\ IsClose(ret.elem.tag)
                   /\ ret.elem.open_tag.some
                   /\ ret.elem.open_tag.id # ""
                \/ "MODIFIED" \in ret.elem.flags )

-----------------------------------------------------------------------------
(* Properties of attribute parsing.  The tag at the cursor is read here    *)
(* as the statements about attributes read it: a name, then attributes     *)
(* written key='v', key="v" or as a bare key, up to '>' or '/>'.           *)

\* a character a written key is made of
IsKeyChar(c) ==
    /\ c # NOCHAR
    /\ ~IsWhitespace(c)
    /\ c \notin {"=", "'", "\"", "/", "<", ">"}

\* the first offset from k on whose character is not whitespace
PastWhitespace(k) ==
    Min({ i \in k..(Size - 1) : ~IsWhitespace(CharAt(i)) } \cup {Size})

\* the first offset from k on whose character is not a key character
PastKey(k) ==
    Min({ i \in k..(Size - 1) : ~IsKeyChar(CharAt(i)) } \cup {Size})

\* the written attributes from offset k on, after the attributes acc:
\* "ok" with all of them at the tag's end, "unquoted" at the character that
\* follows an '=' and is no quote, "other" for any other text
RECURSIVE WrittenAttributes(_, _)
WrittenAttributes(k, acc) ==
    LET a == PastWhitespace(k)
        ke == PastKey(a)
        e == PastWhitespace(ke)
        q == PastWhitespace(e + 1)
        c == Min({ i \in (q + 1)..(Size - 1) : CharAt(i) = CharAt(q) } \cup {Size})
    IN  IF a >= Size
        THEN [kind |-> "other", attrs |-> acc, at |-> a]
        ELSE IF CharAt(a) = ">" \/ (CharAt(a) = "/" /\ a + 1 < Size /\ CharAt(a + 1) = ">")
        THEN [kind |-> "ok", attrs |-> acc, at |-> a]
        ELSE IF ke = a
        THEN [kind |-> "other", attrs |-> acc, at |-> a]
        ELSE IF e < Size /\ CharAt(e) = "="
        THEN IF q < Size /\ CharAt(q) \in {"'", "\""}
             THEN IF c >= Size
                  THEN [kind |-> "other", attrs |-> acc, at |-> q]
                  ELSE WrittenAttributes(c + 1,
                           Append(acc, [key |-> Slice(a, ke), value |-> Slice(q + 1, c)]))
             ELSE [kind |-> "unquoted", attrs |-> acc, at |-> q]
        ELSE IF e > ke \/ (e < Size /\ CharAt(e) \in {">", "/"})
        THEN WrittenAttributes(ke, Append(acc, [key |-> Slice(a, ke), value |-> << >>]))
        ELSE [kind |-> "other", attrs |-> acc, at |-> e]

\* the written attributes of the open tag the call started on, when it
\* started on one with skip_until_text at None
WrittenTag ==
    LET p == pre.input_position
        name_end == PastKey(p + 1)
    IN  IF /\ pre.skip_until_text = "None"
           /\ p + 1 < Size
           /\ CharAt(p) = "<"
           /\ CharAt(p + 1) \notin {"!", "?"}
           /\ name_end > p + 1
           /\ name_end < Size
           /\ IsWhitespace(CharAt(name_end))
        THEN WrittenAttributes(name_end, << >>)
        ELSE [kind |-> "none", attrs |-> << >>, at |-> NONE]

\* no two written attributes have the same key
DistinctKeys(attrs) ==
    \A i, j \in 1..Len(attrs) : attrs[i].key = attrs[j].key => i = j

\* C11: on a tag whose attributes are written key='v', key="v" or as a
\* bare key, with any whitespace around '=' and before '>', next_iteration
\* returns a tag with one attribute per written attribute, in source order,
\* each with the key as written and the text between its quotes as value
\* (empty for a bare key).
C11_AttributesAsWritten ==
    (op = "next_iteration" /\ WrittenTag.kind = "ok" /\ DistinctKeys(WrittenTag.attrs))
       => /\ ret.kind = "ok"
          /\ ret.what = "Tag"
          /\ Len(last_tag.attributes) = Len(WrittenTag.attrs)
          /\ \A i \in 1..Len(WrittenTag.attrs) :
                /\ AttrKey(last_tag.attributes[i]) = WrittenTag.attrs[i].key
                /\ AttrValueText(last_tag.attributes[i]) = WrittenTag.attrs[i].value

\* C12: on a tag in which an '=' is followed, after optional whitespace,
\* by a character that is no quote, next_iteration fails with
\* AttributeValueUnquotedParseError at the offset of that character; it
\* stores no tag and leaves the cursor on the tag's '<'.
C12_UnquotedValue ==
    (op = "next_iteration" /\ WrittenTag.kind = "unquoted")
       => /\ ret.kind = "err"
          /\ ret.what = "AttributeValueUnquotedParseError"
          /\ ret.at = WrittenTag.at
          /\ last_tag = pre.last_tag
          /\ input_position = pre.input_position

\* the first written attribute whose key an earlier one already has, and
\* that earlier one
FirstDuplicate(attrs) ==
    LET j == Min({ k \in 1..Len(attrs) : \E i \in 1..(k - 1) : attrs[i].key = attrs[k].key })
    IN  [new |-> j, prior |-> CHOOSE i \in 1..(j - 1) : attrs[i].key = attrs[j].key]

\* C13: on a tag that writes a key a second time next_iteration fails with
\* AttributeExists; the error names the key and reports the value written
\* first as well as the new one, and the attribute written first keeps its
\* value.
C13_DuplicateAttribute ==
    (op = "next_iteration" /\ WrittenTag.kind = "ok" /\ ~DistinctKeys(WrittenTag.attrs))
       => LET dup == FirstDuplicate(WrittenTag.attrs)
              reported == { Slice(ret.info[k].start, ret.info[k].end) : k \in 2..Len(ret.info) }
          IN  /\ ret.kind = "err"
              /\ ret.what = "AttributeExists"
              /\ Slice(ret.info[1].start, ret.info[1].end) = WrittenTag.attrs[dup.new].key
              /\ WrittenTag.attrs[dup.prior].value \in reported
              /\ WrittenTag.attrs[dup.new].value \in reported
              /\ AttrValueText(ret.tag.attributes[dup.prior]) = WrittenTag.attrs[dup.prior].value

-----------------------------------------------------------------------------
(* Properties of the emitted tags.                                         *)

\* the last call was a next_iteration that emitted a tag: an element tag or
\* a special tag
EmittedTag ==
    /\ op = "next_iteration"
    /\ ret.kind = "ok"
    /\ ret.what \notin {"NotInitialized", "Body"}

\* C14: a tag as next_iteration emits it is not marked modified, and
\* to_char_sequence of it is the text of the buffer from the '<' the call
\* started on through the '>' that ends the tag (for a conditional comment
\* the '>' of its `]-->`).
C14_SerializesToSource ==
    EmittedTag
       => LET open == pre.input_position
              end == IF ret.what = "ConditionalComment"
                     THEN FindStrAt(<< "]", "-", "-", ">" >>, open + 1) + 4
                     ELSE input_position
          IN  /\ ~last_tag.modified
              /\ CharAt(open) = "<"
              /\ CharAt(end - 1) = ">"
              /\ ToCharSequence(last_tag) = Slice(open, end)


-----------------------------------------------------------------------------
(* Properties of the encoding resolution.                                  *)

\* determine_encoding was called on the stream
Determined == op = "determine_encoding"

\* the stream starts with a byte order mark
HasBom == doc.bom.bytes # << >>

\* the stream declares an encoding in an `<?xml ..?>` declaration at its start
DeclaresEncoding == doc.lead = << >> /\ doc.decl.declared.some

\* C15: for a stream with a byte order mark and an `<?xml` declaration with an
\* encoding, determine_encoding returns the encoding and the length of the
\* mark when the declared name equals the mark's ignoring ASCII case, and
\* fails with XmlEncodingMismatch carrying both names when it does not
C15_BomAndDeclaration ==
    Determined /\ HasBom /\ DeclaresEncoding
       => IF EqIgnoreCase(doc.decl.declared.str, doc.bom.encoding)
          THEN ret = EncOk(EncodingResult(doc.bom.encoding, Len(doc.bom.bytes)))
          ELSE ret = EncErr("XmlEncodingMismatch",
                            [bom |-> doc.bom.encoding,
                             attribute |-> doc.decl.declared.str])

\* C16: for a stream of any length with neither a byte order mark nor an
\* `<?xml` declaration, determine_encoding returns utf-8 with BOM length 0
C16_NeitherIsUtf8 ==
    Determined /\ ~HasBom /\ ~doc.decl.present
       => ret = EncOk(EncodingResult(<< 117, 116, 102, 45, 56 >>, 0))

\* C17: with a byte order mark and no declared encoding (no declaration, or
\* one without `encoding=`) determine_encoding returns the encoding and the
\* length of the mark; with a declared encoding, quoted or not, and no mark
\* it returns the declared name with BOM length 0
C17_OnlyOnePresent ==
    /\ Determined /\ HasBom /\ ~doc.decl.declared.some
                  /\ (doc.decl.present => doc.lead = << >>)
          => ret = EncOk(EncodingResult(doc.bom.encoding, Len(doc.bom.bytes)))
    /\ Determined /\ ~HasBom /\ DeclaresEncoding
          => ret = EncOk(EncodingResult(doc.decl.declared.str, 0))

\* C18: when other text stands before the `<?xml ..?>` declaration of the
\* stream, new_stream fails with InvalidXmlDeclaration and builds no parser
C18_StrayBeforeDeclaration ==
    op = "new_stream" /\ doc.decl.present /\ doc.lead # << >>
       => /\ ret.kind = "err"
          /\ ret.what = "InvalidXmlDeclaration"
          /\ pc = "failed"

-----------------------------------------------------------------------------
(* Properties of the markup assembled by parse_markup.                     *)

\* parse_markup has returned its markup: get_next_tag reported the end of
\* the input
MarkupReturned == op = "parse_markup" /\ pc = "done" /\ ret.kind = "ok"

\* the source byte range of a markup element
ElementRange(e) == IF e.kind = "RawMarkup" THEN e.text_range ELSE e.tag.text_range

\* no filter of the chain replaces the tag it is given by other elements
NoReplacingFilter ==
    \A k \in 1..Len(filters) : filters[k] \notin {"EmptySpecial", "Expand", "RawSpecial", "Split"}

\* every filter of the chain returns Keep
KeepOnlyChain ==
    \A k \in 1..Len(filters) : filters[k] \in {"Keep", "IdOpen", "LinkClose", "Modify"}

\* C19: in the markup parse_markup returns no two adjacent elements are
\* both RawMarkup, and everything between two consecutive accepted tags is
\* one RawMarkup element: each element begins where the one before it ends
C19_OneRawMarkupPerGap ==
    MarkupReturned /\ NoReplacingFilter
       => \A i \in 1..(Len(markup) - 1) :
            /\ ~(markup[i].kind = "RawMarkup" /\ markup[i + 1].kind = "RawMarkup")
            /\ ElementRange(markup[i]).end = ElementRange(markup[i + 1]).start

\* C19, first half only: no two adjacent elements are both RawMarkup
C19_NoAdjacentRawMarkup ==
    \A i \in 1..(Len(markup) - 1) :
        ~(markup[i].kind = "RawMarkup" /\ markup[i + 1].kind = "RawMarkup")

\* C20: with a chain whose filters all return Keep the returned markup is in
\* document order: each element's source range starts at or after the end
\* of the range of the element before it
C20_DocumentOrder ==
    MarkupReturned /\ KeepOnlyChain
       => \A i \in 1..(Len(markup) - 1) :
            ElementRange(markup[i + 1]).start >= ElementRange(markup[i]).end

-----------------------------------------------------------------------------
(* Properties of raw-text skipping.                                        *)

\* the last call was next_iteration and it returned a Tag token
EmittedTagToken == op = "next_iteration" /\ ret.kind = "ok" /\ ret.what = "Tag"

\* the skip type a tag arms by its type and local name
ArmsByName(tag) ==
    IF tag.tag_type # "Open" THEN "None"
    ELSE IF EqIgnoreAsciiCase(TagName(tag), SCRIPT) THEN "Script"
    ELSE IF EqIgnoreAsciiCase(TagName(tag), STYLE) THEN "Style"
    ELSE "None"

\* C21: a next_iteration that returns a Tag arms skip_until_text exactly
\* when the tag is Open and its local name is script or style ignoring
\* ASCII case (with or without attributes or a namespace); Close and
\* OpenClose tags and tags of other names leave it unarmed.
C21_ArmsIffRawTextElement ==
    (EmittedTagToken /\ pre.skip_until_text = "None")
       => skip_until_text = ArmsByName(last_tag)

\* the armed name of the parser the last call was made on
ArmedName == SkipText(pre.skip_until_text)

\* the offsets, from the cursor of the last call on, of a `</` followed by
\* the armed name ignoring ASCII case
EndTags ==
    { k \in pre.input_position..(Size - Len(ArmedName) - 2) :
        /\ Slice(k, k + 2) = LtSlash
        /\ EqIgnoreAsciiCase(Slice(k + 2, k + 2 + Len(ArmedName)), ArmedName) }

\* those of them that a '>' follows
ClosedEndTags == { k \in EndTags : FindCharAt(">", k + 2 + Len(ArmedName)) # NONE }

\* the last call was next_iteration on an armed parser that was not at the
\* end of the buffer
AdvancedArmed ==
    /\ op = "next_iteration"
    /\ pre.skip_until_text # "None"
    /\ pre.input_position < Size

\* C22: an armed next_iteration returns a Body that ends at the first `</`
\* followed by the armed name ignoring ASCII case, whatever other `</` come
\* before it: the cursor is left on that `</` and skip_until_text is cleared.
C22_BodyEndsAtEndTag ==
    (AdvancedArmed /\ EndTags # {} /\ Min(EndTags) \in ClosedEndTags)
       => /\ ret.kind = "ok"
          /\ ret.what = "Body"
          /\ input_position = Min(EndTags)
          /\ skip_until_text = "None"

\* the errors of skip_until: the raw text is not terminated
RawTextErrors == {"TagNotClosed", "TagEndTextError", "LastTextError", "SkipTagNotClosed"}

\* C23: an armed next_iteration with no `</`, armed name, '>' left in the
\* buffer fails with an error of skip_until, returns no Body, and leaves the
\* cursor and skip_until_text as they were.
C23_UnterminatedRawText ==
    (op = "next_iteration" /\ pre.skip_until_text # "None" /\ ClosedEndTags = {})
       => /\ ret.kind = "err"
          /\ ret.what \in RawTextErrors
          /\ input_position = pre.input_position
          /\ skip_until_text = pre.skip_until_text

-----------------------------------------------------------------------------
(* Properties of the token boundaries.                                     *)

\* the offset of the first ch at or after i that lies outside every quoted
\* run, NONE when there is none; a run opens at ' or " and ends at the next
\* same quote that no backslash precedes (test::nested_quotes); quote is the
\* quote of the run i lies in, NOCHAR outside a run
RECURSIVE FirstOutsideQuotes(_, _, _)
FirstOutsideQuotes(ch, i, quote) ==
    IF i >= Size THEN NONE
    ELSE IF quote = NOCHAR
    THEN IF CharAt(i) = ch THEN i
         ELSE FirstOutsideQuotes(ch, i + 1, IF CharAt(i) \in {"'", "\""} THEN CharAt(i) ELSE NOCHAR)
    ELSE FirstOutsideQuotes(ch, i + 1,
                            IF CharAt(i) = quote /\ CharAt(i - 1) # "\\" THEN NOCHAR ELSE quote)

\* the last call was next_iteration on an unarmed parser whose cursor was on
\* a '<' that a character follows
AdvancedOnBracket ==
    /\ op = "next_iteration"
    /\ pre.skip_until_text = "None"
    /\ pre.input_position < Size - 1
    /\ CharAt(pre.input_position) = "<"

\* the cursor of the last call was on `<!` or `<?`
OnSpecialPrefix == CharAt(pre.input_position + 1) \in {"!", "?"}

C24_WitnessSpecial ==
    /\ AdvancedOnBracket
    /\ OnSpecialPrefix
    /\ ret.kind = "ok"
    /\ ret.what = "ProcessingInstruction"
    /\ CharAt(input_position - 2) = "'"

-----------------------------------------------------------------------------
(* Properties of the special constructs.                                   *)

\* the buffer reads lit at offset p
ReadsAt(p, lit) == p + Len(lit) <= Size /\ Slice(p, p + Len(lit)) = lit

\* the last call was next_iteration on an unarmed parser whose cursor was on
\* the text lit
AdvancedOn(lit) ==
    /\ op = "next_iteration"
    /\ pre.skip_until_text = "None"
    /\ ReadsAt(pre.input_position, lit)

\* the cursor of the last call was on a `<!--` that opens neither a
\* conditional comment `<!--[if ` nor the endif `<!--<![endif]-->`
OnPlainComment ==
    /\ AdvancedOn(<< "<" >> \o LitComment)
    /\ ~ReadsAt(pre.input_position, << "<" >> \o LitIf)
    /\ ~ReadsAt(pre.input_position + 4, << "<" >> \o LitEndif \o << ">" >>)

\* the offset of the first `-->` after the `<!--` at the cursor of the last
\* call
CommentEnd == FindStrAt(<< "-", "-", ">" >>, pre.input_position + 4)

\* C25: on a plain comment next_iteration returns one Comment token from the
\* '<' through the first following `-->` and leaves the cursor just past it,
\* whatever '>' or '<' the comment holds; without a `-->` it fails with
\* UnclosedComment.
C25_PlainComment ==
    OnPlainComment
       => IF CommentEnd # NONE
          THEN /\ ret.kind = "ok"
               /\ ret.what = "Comment"
               /\ last_text_range = Range(pre.input_position, CommentEnd + 3)
               /\ input_position = CommentEnd + 3
          ELSE /\ ret.kind = "err"
               /\ ret.what = "UnclosedComment"

\* C26: on a construct whose inner text starts with `!DOCTYPE` (in this
\* case) next_iteration returns the Doctype token type, records the text
\* between '<' and '>' as the doctype range, and leaves the cursor just past
\* the '>'.
C26_Doctype ==
    (AdvancedOn(<< "<" >> \o LitDoctype) /\ FindCharAt(">", pre.input_position) # NONE)
       => /\ ret.kind = "ok"
          /\ ret.what = "Doctype"
          /\ doc_type_range = Range(pre.input_position + 1, FindCharAt(">", pre.input_position))
          /\ input_position = FindCharAt(">", pre.input_position) + 1

\* C26 without the token type: the doctype range and the cursor
C26_DoctypeRange ==
    (AdvancedOn(<< "<" >> \o LitDoctype) /\ FindCharAt(">", pre.input_position) # NONE)
       => /\ ret.kind = "ok"
          /\ doc_type_range = Range(pre.input_position + 1, FindCharAt(">", pre.input_position))
          /\ input_position = FindCharAt(">", pre.input_position) + 1

\* the offset of the first `]]>` after the `<![CDATA[` at the cursor of the
\* last call
CdataEnd == FindStrAt(<< "]", "]", ">" >>, pre.input_position + 9)

\* C27: on a `<![CDATA[` section with a terminator next_iteration returns
\* Cdata and leaves the cursor just past the first '>' that `]]` precedes,
\* whatever '>', '<' or quote characters the payload holds.
C27_Cdata ==
    (AdvancedOn(<< "<" >> \o LitCdata) /\ CdataEnd # NONE)
       => /\ ret.kind = "ok"
          /\ ret.what = "Cdata"
          /\ input_position = CdataEnd + 3

-----------------------------------------------------------------------------
(* Properties of the tag text.                                             *)

\* C28: no Tag token has an empty name; a tag whose inner text is empty,
\* as written (`<>`) or once its slash is taken off (`</>`), fails with
\* EmptyTag.
C28_NoEmptyName ==
    /\ EmittedTagToken => TagName(last_tag) # << >>
    /\ (AdvancedOn(<< "<", ">" >>) \/ AdvancedOn(<< "<", "/", ">" >>))
          => ret.kind = "err" /\ ret.what = "EmptyTag"

\* C28 for the tag `<>` alone
C28_EmptyBrackets ==
    AdvancedOn(<< "<", ">" >>) => ret.kind = "err" /\ ret.what = "EmptyTag"

\* the inner text of the ordinary tag at the cursor of the last call, with
\* its slash taken off
InnerText ==
    TagTypeOf(Range(pre.input_position + 1,
                    FirstOutsideQuotes(">", pre.input_position, NOCHAR))).range

\* the attribute text of that tag: what follows its name
AttributeText == Range(ParseTagName(InnerText).name.end, InnerText.end)

\* attribute scanning of that tag stops at once, on a '/' or '>' where a key
\* should start, and leaves the text from there on unparsed
ScanStopsEarly ==
    /\ FirstOutsideQuotes(">", pre.input_position, NOCHAR) # NONE
    /\ ~RangeIsEmpty(ParseTagName(InnerText).name)
    /\ LET k == SkipWhitespace(AttributeText, 0)
       IN  /\ k < RangeLen(AttributeText)
           /\ CharAt(AttributeText.start + k) \in {"/", ">"}

\* C29: when attribute scanning stops before the end of the inner text of a
\* tag, next_iteration fails with MalformedTag and returns no Tag.
C29_LeftoverIsMalformed ==
    (AdvancedOnBracket /\ ~OnSpecialPrefix /\ ScanStopsEarly)
       => ret.kind = "err" /\ ret.what = "MalformedTag"

\* MalformedTag is never returned
C29_NeverMalformed == ret.what # "MalformedTag"

\* the keys of the attributes of a tag, in order
KeysOf(tag) == [ i \in 1..Len(tag.attributes) |-> AttrKey(tag.attributes[i]) ]

\* C30: the attribute keys of every Tag token are pairwise distinct as
\* written (case-sensitively), and when the tag writes keys that are
\* distinct, among them keys that differ only in letter case, the token has
\* one attribute for each of them.
C30_DistinctKeys ==
    /\ EmittedTagToken
          => \A i, j \in 1..Len(last_tag.attributes) :
                KeysOf(last_tag)[i] = KeysOf(last_tag)[j] => i = j
    /\ (EmittedTagToken /\ WrittenTag.kind = "ok" /\ DistinctKeys(WrittenTag.attrs))
          => KeysOf(last_tag) = [ i \in 1..Len(WrittenTag.attrs) |-> WrittenTag.attrs[i].key ]

\* C30 happens: a Tag token with two attributes whose keys differ only in
\* letter case
C30_Witness ==
    /\ EmittedTagToken
    /\ \E i, j \in 1..Len(last_tag.attributes) :
          /\ i # j
          /\ KeysOf(last_tag)[i] # KeysOf(last_tag)[j]
          /\ EqIgnoreAsciiCase(KeysOf(last_tag)[i], KeysOf(last_tag)[j])

-----------------------------------------------------------------------------
(* Properties of the cursor.                                               *)

\* C31: over any sequence of calls on one parser the cursor never moves
\* back and never passes the end of the buffer, whether the call succeeds
\* or fails.
C31_CursorForward ==
    [][input_position' >= input_position /\ input_position' <= Size]_vars

\* C31 happens: a next_iteration that fails has moved the cursor, forward
\* and within the buffer
C31_Witness ==
    /\ op = "next_iteration"
    /\ ret.kind = "err"
    /\ input_position > pre.input_position
    /\ input_position <= Size

-----------------------------------------------------------------------------
(* Properties of the queue of get_next_tag.                                *)

\* the k-th thing the last get_next_tag did put elements into the queue
Queues(k) ==
    events[k].e = "filter" /\ events[k].result = "Replace" /\ events[k].n >= 2

\* C32: get_next_tag does not advance the tokenizer while the queue holds
\* elements: a call entered with a non-empty queue delivers its head, leaves
\* the rest in order and leaves the cursor where it was, and a call that has
\* queued elements pulls no further token before it returns.
C32_QueueFirst ==
    /\ (RanGetNextTag /\ events # << >> /\ events[1].e = "pop")
          => /\ ret.elem.uid = events[1].uid
             /\ input_position = pre.input_position
             /\ \A k \in 1..Len(events) : events[k].e # "pull"
    /\ RanGetNextTag
          => \A k, j \in 1..Len(events) : (Queues(k) /\ k < j) => events[j].e # "pull"

\* C32 for a call entered with a non-empty queue: it delivers the head of
\* the queue, leaves the rest in order, pulls no token and leaves the cursor
\* where it was
C32_QueueFirstAtEntry ==
    [][queue # << >>
          => /\ ret'.elem = Head(queue)
             /\ queue' = Tail(queue)
             /\ input_position' = input_position
             /\ \A k \in 1..Len(events') : events'[k].e # "pull"]_vars

\* C33: get_next_tag reports the end of the stream (Ok(None)) only when the
\* tokenizer is at the end of the buffer and the queue is empty: no element
\* queued by a Replace is left undelivered.
C33_EndOnlyWhenDrained ==
    (RanGetNextTag /\ ret.kind = "ok" /\ ret.what \in {"None", "break"})
       => /\ input_position = Size
          /\ queue = << >>

\* C33 for the tokenizer alone: the end is reported at the end of the buffer
C33_EndAtEndOfBuffer ==
    (RanGetNextTag /\ ret.kind = "ok" /\ ret.what \in {"None", "break"})
       => input_position = Size

-----------------------------------------------------------------------------
(* Properties of the gaps and the end of the markup.                       *)

\* the last iteration of parse_markup accepted a tag: it is the last element
\* of the markup
AcceptedTag ==
    /\ op = "parse_markup" /\ ret.kind = "ok" /\ ret.what = "continue"
    /\ Added(ret.elem)

\* the end of the element accepted before the last one, the start of the
\* document when there is none
RECURSIVE EndOfAcceptedBefore(_)
EndOfAcceptedBefore(i) ==
    IF i = 0
    THEN 0
    ELSE IF markup[i].kind = "RawMarkup"
    THEN EndOfAcceptedBefore(i - 1)
    ELSE markup[i].tag.text_range.end

\* C34: when parse_markup accepts a tag, the RawMarkup appended for the gap
\* before it is the range from the end of the tag accepted before it (the
\* start of the document when there is none) to the tag's `<`, it is
\* appended only when that range is not empty, and the position marker is
\* then at the end of the accepted tag.
C34_GapBeforeAcceptedTag ==
    AcceptedTag /\ NoReplacingFilter
       => LET n == Len(markup)
              from == EndOfAcceptedBefore(n - 1)
              to == markup[n].tag.text_range.start
          IN  /\ markup[n] = ret.elem
              /\ IF from < to
                 THEN /\ n >= 2
                      /\ markup[n - 1].kind = "RawMarkup"
                      /\ markup[n - 1].text_range = Range(from, to)
                 ELSE n = 1 \/ markup[n - 1].kind # "RawMarkup"
              /\ position_marker = markup[n].tag.text_range.end

\* C34, the marker only: after a tag is accepted from a chain that replaces
\* nothing, the position marker is at the end of that tag
C34_MarkerAtEndOfTag ==
    AcceptedTag /\ NoReplacingFilter
       => position_marker = markup[Len(markup)].tag.text_range.end

\* C35: parse_markup never appends the text after the last accepted tag: an
\* iteration that accepts no tag, the one that ends the loop included, leaves
\* the markup as it was, so the markup of a document without an accepted tag
\* is empty, and the last element of a non-empty markup is a tag, never a
\* RawMarkup.
C35_NoTrailingFlush ==
    [][/\ (/\ op' = "parse_markup" /\ ret'.kind = "ok"
           /\ (ret'.what = "break" \/ ~Added(ret'.elem)))
          => markup' = markup
       /\ markup' # << >> => markup'[Len(markup')].kind = "ComponentTag"]_vars

\* parse_markup returned a markup that ends with a tag although text follows
\* the last accepted tag in the document
C35_Witness ==
    /\ MarkupReturned /\ markup # << >>
    /\ markup[Len(markup)].kind = "ComponentTag"
    /\ input_position = Size /\ position_marker < Size
    /\ markup[Len(markup)].tag.text_range.end = position_marker

\* parse_markup returned an empty markup for a document that has tags
C35_WitnessEmpty ==
    /\ MarkupReturned /\ markup = << >>
    /\ \E i \in 1..Size : input[i] = "<"

-----------------------------------------------------------------------------
(* Properties of the quote-aware search.                                   *)

\* the quote that is open when a scan from i in quote state quote reaches
\* the end of the buffer without meeting ch outside quotes, NOCHAR when none
\* is open
RECURSIVE QuoteAtEnd(_, _, _)
QuoteAtEnd(ch, i, quote) ==
    IF i >= Size THEN quote
    ELSE IF quote = NOCHAR
    THEN IF CharAt(i) = ch THEN NOCHAR
         ELSE QuoteAtEnd(ch, i + 1, IF CharAt(i) \in {"'", "\""} THEN CharAt(i) ELSE NOCHAR)
    ELSE QuoteAtEnd(ch, i + 1,
                    IF CharAt(i) = quote /\ CharAt(i - 1) # "\\" THEN NOCHAR ELSE quote)

\* the next call of next_iteration searches the close bracket of the tag at
\* the cursor with find_out_of_quotes('>', input_position, None); no call
\* before it was aborted
CallsFindOutOfQuotes ==
    /\ ret.kind # "panic"
    /\ skip_until_text = "None"
    /\ input_position < Size - 1
    /\ CharAt(input_position) = "<"
    /\ CharAt(input_position + 1) \notin {"!", "?"}

\* find_out_of_quotes(ch, start_pos, None) on the reader as it is returns
\* what C36 states
FindOutOfQuotesAsStated(ch, start_pos) ==
    LET r == FindOutOfQuotes(Parser, ch, start_pos)
        first == FirstOutsideQuotes(ch, start_pos, NOCHAR)
        open == first = NONE /\ QuoteAtEnd(ch, start_pos, NOCHAR) # NOCHAR
    IN  /\ r.kind = "err" <=> open
        /\ open => r.what = "Find" /\ r.at = start_pos
        /\ (first = NONE /\ ~open) => (r.kind = "ok" /\ r.idx = NONE)
        /\ first # NONE => (r.kind = "ok" /\ r.idx = first)

\* C36: find_out_of_quotes fails with the Find error, which carries the
\* start position, exactly when the scan reaches the end of the buffer with
\* a quote still open; it returns None when the scan ends outside quotes
\* without meeting the character, and otherwise the index of the first such
\* character outside quotes.
C36_FindOutOfQuotes ==
    CallsFindOutOfQuotes => FindOutOfQuotesAsStated(">", input_position)

\* C36 for the first search on a reader, which starts at offset 0 as the
\* searches of the tests do
C36_FirstSearch ==
    (CallsFindOutOfQuotes /\ Parser = NewParser) => FindOutOfQuotesAsStated(">", 0)

-----------------------------------------------------------------------------
(* Properties of line counting.                                            *)

\* C37: every offset next_iteration asks count_lines_to to count up to is at
\* least the last counted offset and at most the length of the buffer: no
\* call aborts on the slice count_lines_to takes, and the last counted
\* offset stays within the buffer.
C37_CountsForward ==
    /\ last_line_count_index <= Size
    /\ op = "next_iteration"
          => ~(ret.kind = "panic" /\ ret.what = "count_lines_to: slice out of range")

\* C37 for the requests of next_iteration itself, at "Determine the line
\* number", on a reader no quote-aware search has counted on: the offset of
\* the '<' is at or after the last counted offset
C37_BracketCountsForward ==
    (op = "next_iteration" /\ pre.last_line_count_index <= pre.input_position)
       => last_line_count_index >= pre.last_line_count_index

-----------------------------------------------------------------------------
(* Properties of the flags of a ComponentTag.                              *)

\* what the getter of a flag returns on the tag
Getter(flag) ==
    CASE flag = "MODIFIED" -> IsModified(component_tag)
      [] flag = "IGNORE" -> IsIgnore(component_tag)
      [] flag = "NO_CLOSE_TAG" -> IsHasNoCloseTag(component_tag)
      [] flag = "CONTAINS_WICKET_ID" -> IsContainsWicketId(component_tag)
      [] flag = "AUTO_COMPONENT" -> IsAutoComponentTag(component_tag)

\* C38: the getter of each flag that has a setter returns the argument of
\* the last call of that setter, whatever the setters of the other flags
\* were called with, and false on a tag no setter was called on.
C38_GetterReturnsLastSet ==
    \A flag \in SetterFlags : Getter(flag) = flag_args[flag]

\* C38 for the setters alone: the flags stored in the tag are those whose
\* setter was last called with true, and a setter changes no other flag
C38_SettersStoreLastSet ==
    component_tag.flags = { flag \in SetterFlags : flag_args[flag] }

\* what the getters return instead: the negation of the argument of the last
\* setter call, true on a tag no setter was called on
C38_GetterNegatesLastSet ==
    \A flag \in SetterFlags : Getter(flag) = ~flag_args[flag]

-----------------------------------------------------------------------------
(* Properties of the Body token.                                           *)

\* the last call was next_iteration and it returned a Body token
ReturnedBody == op = "next_iteration" /\ ret.kind = "ok" /\ ret.what = "Body"

\* C39: no two consecutive successful calls of next_iteration both return
\* Body: a Body token leaves the cursor at the end of the buffer or on a
\* '<', and the successful call after it returns End, a tag or a special
\* token.
C39_NoBodyAfterBody ==
    [][/\ ReturnedBody' => (input_position' = Size \/ CharAt(input_position') = "<")
       /\ (ReturnedBody /\ op' = "next_iteration" /\ ret'.kind = "ok")
             => ret'.what # "Body"]_vars

\* C39 happens: the call after a Body token returned the tag the Body ended
\* at
C39_Witness ==
    /\ op = "next_iteration" /\ ret.kind = "ok" /\ ret.what = "Tag"
    /\ pre.last_type = "Body"
    /\ pre.input_position > 0
    /\ last_text_range.start = pre.input_position

-----------------------------------------------------------------------------
(* Properties of the elements delivered to parse_markup.                   *)

\* C40: whatever the filters of the chain return, get_next_tag delivers no
\* RawMarkup, and parse_markup never runs into its unreachable!() arm.
C40_NoRawMarkupDelivered ==
    /\ (RanGetNextTag /\ ret.kind = "ok") => ret.elem.kind # "RawMarkup"
    /\ op = "parse_markup" => ~(ret.kind = "panic" /\ ret.what = "unreachable!()")

\* C40 for chains whose filters put no RawMarkup into a Replace: every
\* delivered element is a ComponentTag or a SpecialTag
C40_TagsFromTagFilters ==
    (\A k \in 1..Len(filters) : filters[k] # "RawSpecial")
       => /\ (RanGetNextTag /\ ret.kind = "ok" /\ ret.what \notin {"None", "break"})
                => ret.elem.kind \in {"ComponentTag", "SpecialTag"}
          /\ op = "parse_markup" => ~(ret.kind = "panic" /\ ret.what = "unreachable!()")

====
